---------------------------- MODULE Spec2Model ----------------------------
(***************************************************************************)
(* PAdES signature handler (model/sighandler/sighandler_pades.go): the     *)
(* level builders, InitSignature / Sign and the DSS they fill, and         *)
(* Validate / ValidateEx; and the HTML paragraph                           *)
(* (creator/html_paragraph.go): Append and processNode.                    *)
(*                                                                         *)
(* Every call of the handler API is one action: the handler is synchronous *)
(* and single-threaded.  What the network answers to a request, the        *)
(* content the writer feeds the digest and the reader handed to ValidateEx *)
(* are inputs, drawn with \E.  Byte strings are modelled by what the code  *)
(* reads of them: a DER signature by the SignedData it encodes and its     *)
(* length, an OCSP response or a CRL by what the parser finds in it.       *)
(***************************************************************************)
EXTENDS Naturals, Sequences, FiniteSets, TLC

VARIABLES
    handler,    \* the *etsiPAdES a builder returned (Nil before New succeeds)
    sig,        \* the model.PdfSignature: Filter, SubFilter, Contents, Handler, Reference
    heap,       \* the model.DSS objects the handlers point to, by address
    reserved,   \* history: len(Contents) as the last successful InitSignature set it (0: none)
    last,       \* the last API call: its name, arguments, what it returned, the requests it issued
    digest,     \* the model.Hasher of the last signing or validation attempt (Nil before any)
    hBlocks,    \* HtmlParagraph.blocks: the addresses of the blocks Append added
    styleStack, \* HtmlParagraph.styleStack.styleStack
    tableStack, \* HtmlParagraph.tableStack.tableStack: the addresses of the open tables
    tables,     \* the htmlTable objects, by address
    blocks,     \* the htmlBlock objects, by address
    frames,     \* the calls of processNode that are in their loop, outermost first
    visited,    \* the number of nodes below document nodes processNode was called on
    returned    \* what the calls of HtmlParagraph.Append returned, in order

\* the state of the signature handler and of the HTML paragraph
padesVars == <<handler, sig, heap, reserved, last, digest>>

htmlVars == <<hBlocks, styleStack, tableStack, tables, blocks, frames, visited, returned>>

vars == <<handler, sig, heap, reserved, last, digest, htmlVars>>

----------------------------------------------------------------------------
(* Bounds *)

\* longest list of CRL distribution points and of OCSP servers a builder is given
MaxServers == 2

\* most real Signs performed on one DSS
MaxSigns == 2

\* most certificates, OCSP responses and CRLs, taken together, in the VRI entry of
\* a document handed to ValidateEx
MaxEvidence == 3

\* calls of HtmlParagraph.Append in a run
MaxAppends == 2

\* nodes below the document nodes in a run
MaxNodes == 4

----------------------------------------------------------------------------
(* Values *)

Nil == [nil |-> TRUE]

NoError == <<>>

\* *rsa.PrivateKey
PrivKey == [key |-> "rsa"]

\* the signer's *x509.Certificate and the CA's; `valid' says that Raw parses
LeafCert == [serial |-> 1, subjectCN |-> "leaf", subjectSN |-> "", issuerCN |-> "ca", issuerSN |-> "", valid |-> TRUE]

CaCertificate == [serial |-> 2, subjectCN |-> "ca", subjectSN |-> "", issuerCN |-> "ca", issuerSN |-> "", valid |-> TRUE]

\* the contents a writer may feed the digest
Docs == {"docA", "docB"}

\* the payload InitSignature writes to the sizing digest
ProbePayload == "calculate the Contents field size"

CRLUrl(i) == <<"crl", i>>

OCSPUrl(i) == <<"ocsp", i>>

\* the lists of CRL distribution points a builder may be given
CRLLists == {[i \in 1..n |-> CRLUrl(i)] : n \in 0..MaxServers}

\* the lists of OCSP servers a builder may be given
OCSPLists == {[i \in 1..n |-> OCSPUrl(i)] : n \in 0..MaxServers}

----------------------------------------------------------------------------
(* Level builders *)

FieldRequired(f) == <<"field", f, "is required">>

BuilderParams ==
    [PrivateKey : {Nil, PrivKey},
     Certificate : {Nil, LeafCert},
     CaCert : {Nil, CaCertificate},
     CertificateTimestampServerURL : {"", "http://tsa"},
     CLRDistributionPoints : CRLLists,
     OCSPServers : OCSPLists,
     TimestampServerURL : {"", "http://doc-tsa"}]

\* the etsiPAdES struct; dss is the address of its DSS, 0 for a nil pointer
EtsiPAdES(key, cert, ca, crls, ocsps, ts) ==
    [privateKey |-> key, certificate |-> cert, emptySignature |-> FALSE,
     isInitializing |-> FALSE, dss |-> 0, caCert |-> ca,
     crlDistributionPoints |-> crls, ocspServers |-> ocsps,
     timestampServerURL |-> ts]

Built(h, second) == [err |-> NoError, handler |-> h, second |-> second]

Failed(e) == [err |-> e, handler |-> Nil, second |-> Nil]

PAdESLevelB_New(p) ==
    IF p.PrivateKey = Nil THEN Failed(FieldRequired("PrivateKey"))
    ELSE IF p.Certificate = Nil THEN Failed(FieldRequired("Certificate"))
    ELSE IF p.CaCert = Nil THEN Failed(FieldRequired("CaCert"))
    ELSE Built(EtsiPAdES(p.PrivateKey, p.Certificate, p.CaCert, <<>>, <<>>, ""), Nil)

\* PAdESLevelT.New with the timestamp-URL check moved before the CaCert check
PAdESLevelT_NewSwapped(p) ==
    IF p.PrivateKey = Nil THEN Failed(FieldRequired("PrivateKey"))
    ELSE IF p.Certificate = Nil THEN Failed(FieldRequired("Certificate"))
    ELSE IF p.CertificateTimestampServerURL = "" THEN Failed(FieldRequired("CertificateTimestampServerURL"))
    ELSE IF p.CaCert = Nil THEN Failed(FieldRequired("CaCert"))
    ELSE Built(EtsiPAdES(p.PrivateKey, p.Certificate, p.CaCert, <<>>, <<>>,
                         p.CertificateTimestampServerURL), Nil)

PAdESLevelT_New(p) ==
    IF p.PrivateKey = Nil THEN Failed(FieldRequired("PrivateKey"))
    ELSE IF p.Certificate = Nil THEN Failed(FieldRequired("Certificate"))
    ELSE IF p.CaCert = Nil THEN Failed(FieldRequired("CaCert"))
    ELSE IF p.CertificateTimestampServerURL = "" THEN Failed(FieldRequired("CertificateTimestampServerURL"))
    ELSE Built(EtsiPAdES(p.PrivateKey, p.Certificate, p.CaCert, <<>>, <<>>,
                         p.CertificateTimestampServerURL), Nil)

PAdESLevelLT_New(p) ==
    IF p.PrivateKey = Nil THEN Failed(FieldRequired("PrivateKey"))
    ELSE IF p.Certificate = Nil THEN Failed(FieldRequired("Certificate"))
    ELSE IF p.CaCert = Nil THEN Failed(FieldRequired("CaCert"))
    ELSE IF p.CertificateTimestampServerURL = "" THEN Failed(FieldRequired("CertificateTimestampServerURL"))
    ELSE IF Len(p.CLRDistributionPoints) = 0 THEN Failed(FieldRequired("CLRDistributionPoints"))
    ELSE IF Len(p.OCSPServers) = 0 THEN Failed(FieldRequired("OCSPServers"))
    ELSE Built(EtsiPAdES(p.PrivateKey, p.Certificate, p.CaCert, p.CLRDistributionPoints,
                         p.OCSPServers, p.CertificateTimestampServerURL), Nil)

\* NewDocTimeStamp(url, crypto.SHA512): the document-timestamp handler
NewDocTimeStamp(url) ==
    [err |-> NoError, handler |-> [docTimeStamp |-> TRUE, timestampServerURL |-> url]]

\* PAdESLevelLTA.New that gives each handler the other's timestamp URL
PAdESLevelLTA_NewCrossed(p) ==
    IF p.PrivateKey = Nil THEN Failed(FieldRequired("PrivateKey"))
    ELSE IF p.Certificate = Nil THEN Failed(FieldRequired("Certificate"))
    ELSE IF p.CaCert = Nil THEN Failed(FieldRequired("CaCert"))
    ELSE IF p.CertificateTimestampServerURL = "" THEN Failed(FieldRequired("CertificateTimestampServerURL"))
    ELSE IF Len(p.CLRDistributionPoints) = 0 THEN Failed(FieldRequired("CLRDistributionPoints"))
    ELSE IF Len(p.OCSPServers) = 0 THEN Failed(FieldRequired("OCSPServers"))
    ELSE IF p.TimestampServerURL = "" THEN Failed(FieldRequired("TimestampServerURL"))
    ELSE LET d == NewDocTimeStamp(p.CertificateTimestampServerURL)
         IN  IF d.err # NoError THEN Failed(d.err)
             ELSE Built(EtsiPAdES(p.PrivateKey, p.Certificate, p.CaCert, p.CLRDistributionPoints,
                                  p.OCSPServers, p.TimestampServerURL), d.handler)

PAdESLevelLTA_New(p) ==
    IF p.PrivateKey = Nil THEN Failed(FieldRequired("PrivateKey"))
    ELSE IF p.Certificate = Nil THEN Failed(FieldRequired("Certificate"))
    ELSE IF p.CaCert = Nil THEN Failed(FieldRequired("CaCert"))
    ELSE IF p.CertificateTimestampServerURL = "" THEN Failed(FieldRequired("CertificateTimestampServerURL"))
    ELSE IF Len(p.CLRDistributionPoints) = 0 THEN Failed(FieldRequired("CLRDistributionPoints"))
    ELSE IF Len(p.OCSPServers) = 0 THEN Failed(FieldRequired("OCSPServers"))
    ELSE IF p.TimestampServerURL = "" THEN Failed(FieldRequired("TimestampServerURL"))
    ELSE LET d == NewDocTimeStamp(p.TimestampServerURL)
         IN  IF d.err # NoError THEN Failed(d.err)
             ELSE Built(EtsiPAdES(p.PrivateKey, p.Certificate, p.CaCert, p.CLRDistributionPoints,
                                  p.OCSPServers, p.CertificateTimestampServerURL), d.handler)

Levels == {"B", "T", "LT", "LTA"}

BuilderNew(level, p) ==
    CASE level = "B" -> PAdESLevelB_New(p)
      [] level = "T" -> PAdESLevelT_New(p)
      [] level = "LT" -> PAdESLevelLT_New(p)
      [] level = "LTA" -> PAdESLevelLTA_New(p)

----------------------------------------------------------------------------
(* What the network answers *)

\* lengths of the timestamp token a TSA may return (they vary with the TSA's answer)
TokenLens == {64, 4096}

\* answers to the timestamp POST: a transport failure, or a status and a body
\* that is an ASN.1 {Version, Content} sequence (decodes) or not
TSResponses ==
    {[transport |-> TRUE, status |-> 0, decodes |-> FALSE, len |-> 0],
     [transport |-> FALSE, status |-> 500, decodes |-> TRUE, len |-> 64],
     [transport |-> FALSE, status |-> 200, decodes |-> FALSE, len |-> 0]}
    \cup {[transport |-> FALSE, status |-> 200, decodes |-> TRUE, len |-> n] : n \in TokenLens}

\* an OCSP response body: whether it decodes, the serial number it answers for
\* and the subject of the certificate that signed it
OCSPBody(ok, serial, by) == [wellformed |-> ok, serial |-> serial, signedBy |-> by]

OCSPBodies ==
    {OCSPBody(FALSE, 0, ""), OCSPBody(TRUE, 1, "ca"), OCSPBody(TRUE, 3, "ca"),
     OCSPBody(TRUE, 1, "rogue")}

\* answers to the OCSP POST (the status is not read) that server may give: the
\* odd servers fail in transport, answer for the signer or answer with a
\* response the CA did not sign; the even ones answer with bytes that are no
\* OCSP response or with a response for another certificate
OCSPResponses(server) ==
    IF server[2] % 2 = 1
    THEN {[transport |-> TRUE, body |-> OCSPBody(FALSE, 0, "")],
          [transport |-> FALSE, body |-> OCSPBody(TRUE, 1, "ca")],
          [transport |-> FALSE, body |-> OCSPBody(TRUE, 1, "rogue")]}
    ELSE {[transport |-> FALSE, body |-> OCSPBody(FALSE, 0, "")],
          [transport |-> FALSE, body |-> OCSPBody(TRUE, 3, "ca")]}

\* a CRL body: whether it parses as a CRL and the list of serial numbers it revokes
CRLBody(ok, revoked) == [wellformed |-> ok, revoked |-> revoked]

\* answers to the CRL GET that server may give: a transport failure, and a CRL
\* (the odd servers) or an error page with a non-2xx status (the even ones)
CRLResponses(server) ==
    IF server[2] % 2 = 1
    THEN {[transport |-> TRUE, status |-> 0, body |-> CRLBody(FALSE, <<>>)],
          [transport |-> FALSE, status |-> 200, body |-> CRLBody(TRUE, <<>>)]}
    ELSE {[transport |-> TRUE, status |-> 0, body |-> CRLBody(FALSE, <<>>)],
          [transport |-> FALSE, status |-> 404, body |-> CRLBody(FALSE, <<>>)]}

\* a network request as the log records it
Request(kind, url) == [kind |-> kind, url |-> url]

----------------------------------------------------------------------------
(* Library calls, by what the handler reads of their results *)

\* ocsp.ParseResponseForCert(bytes, cert, issuer): the response must decode, must
\* answer for cert when cert is given, and must be signed by issuer when issuer
\* is given
ParseResponseForCert(body, cert, issuer) ==
    IF ~body.wellformed THEN <<"ocsp", "malformed response">>
    ELSE IF cert # Nil /\ body.serial # cert.serial
         THEN <<"ocsp", "no response matching the supplied certificate">>
    ELSE IF issuer # Nil /\ body.signedBy # issuer.subjectCN
         THEN <<"ocsp", "bad signature on the response">>
    ELSE NoError

\* core.MakeStream(data, core.NewRawEncoder()): the stream holds data as is
MakeStream(data) == [Stream |-> data]

\* SignedData that digests the sizing payload whatever the digest holds
SignedDataProbe(content, cert, key, chain) ==
    [messageDigest |-> <<"sha1", ProbePayload>>, signer |-> cert, key |-> key,
     certificates |-> <<cert>> \o chain,
     signingCertificate |-> <<"sha1", cert.serial>>,
     token |-> 0]

\* the SignedData after AddSignerChain and Detach: the digest of `content' signed
\* with `key' for `cert', the chain, the ESS signing-certificate attribute
SignedData(content, cert, key, chain) ==
    [messageDigest |-> <<"sha1", content>>, signer |-> cert, key |-> key,
     certificates |-> <<cert>> \o chain,
     signingCertificate |-> <<"sha1", cert.serial>>,
     token |-> 0]

\* len(detachedSignature) after signedData.Finish()
DerLen(sd) == 1200 + 900 * (Len(sd.certificates) - 1) + sd.token

\* Bytes without the slack: the buffer is as long as detachedSignature
BytesUnpadded(sd, n) == [der |-> sd, len |-> DerLen(sd), damage |-> "none"]

\* n bytes: detachedSignature followed by zero bytes
Bytes(sd, n) == [der |-> sd, len |-> n, damage |-> "none"]

\* strings.ToUpper(hex.EncodeToString(sha1(data)))
VRIKey(data) == [sha1 |-> data, hex |-> "upper"]

----------------------------------------------------------------------------
(* Requests *)

\* etsiPAdES.makeTimestampRequest: the token, or the error
makeTimestampRequest(server, resp) ==
    IF resp.transport THEN [err |-> <<"http", "post failed">>, token |-> 0]
    ELSE IF resp.status # 200 THEN [err |-> <<"timestamp", "http status code not ok">>, token |-> 0]
    ELSE IF ~resp.decodes THEN [err |-> <<"asn1", "structure error">>, token |-> 0]
    ELSE [err |-> NoError, token |-> resp.len]

\* etsiPAdES.makeCRLRequest: the body read from the response, or the error
makeCRLRequest(server, resp) ==
    IF resp.transport THEN [err |-> <<"http", "get failed">>, data |-> CRLBody(FALSE, <<>>)]
    ELSE [err |-> NoError, data |-> resp.body]

\* the loop of makeCRLRequests from server i on; acc holds res and the requests issued
RECURSIVE CRLLoop(_, _, _, _)
CRLLoop(a, resps, i, acc) ==
    IF i > Len(a.crlDistributionPoints) THEN [err |-> NoError, res |-> acc.res, requests |-> acc.requests]
    ELSE LET server == a.crlDistributionPoints[i]
             r == makeCRLRequest(server, resps[i])
             reqs == Append(acc.requests, Request("crl", server))
         IN  IF r.err # NoError THEN [err |-> r.err, res |-> <<>>, requests |-> reqs]
             ELSE CRLLoop(a, resps, i + 1,
                          [res |-> Append(acc.res, MakeStream(r.data)), requests |-> reqs])

\* etsiPAdES.makeCRLRequests
makeCRLRequests(a, resps) == CRLLoop(a, resps, 1, [res |-> <<>>, requests |-> <<>>])

\* etsiPAdES.makeOCSPRequest: the response body once it parses, or the error
makeOCSPRequest(server, cert, caCert, resp) ==
    IF resp.transport THEN [err |-> <<"http", "post failed">>, data |-> OCSPBody(FALSE, 0, "")]
    ELSE LET e == ParseResponseForCert(resp.body, Nil, caCert)
         IN  IF e # NoError THEN [err |-> e, data |-> OCSPBody(FALSE, 0, "")]
             ELSE [err |-> NoError, data |-> resp.body]

\* OCSPLoop that asks a server a second time when its request failed
RECURSIVE OCSPLoopRetry(_, _, _, _)
OCSPLoopRetry(a, resps, i, acc) ==
    IF i > Len(a.ocspServers) THEN [err |-> NoError, res |-> acc.res, requests |-> acc.requests]
    ELSE LET server == a.ocspServers[i]
             r == makeOCSPRequest(server, a.certificate, a.caCert, resps[i])
             reqs == Append(acc.requests, Request("ocsp", server))
         IN  IF r.err # NoError
             THEN [err |-> r.err, res |-> <<>>, requests |-> Append(reqs, Request("ocsp", server))]
             ELSE OCSPLoopRetry(a, resps, i + 1,
                                [res |-> Append(acc.res, MakeStream(r.data)), requests |-> reqs])

\* the loop of makeOCSPRequests from server i on
RECURSIVE OCSPLoop(_, _, _, _)
OCSPLoop(a, resps, i, acc) ==
    IF i > Len(a.ocspServers) THEN [err |-> NoError, res |-> acc.res, requests |-> acc.requests]
    ELSE LET server == a.ocspServers[i]
             r == makeOCSPRequest(server, a.certificate, a.caCert, resps[i])
             reqs == Append(acc.requests, Request("ocsp", server))
         IN  IF r.err # NoError THEN [err |-> r.err, res |-> <<>>, requests |-> reqs]
             ELSE OCSPLoop(a, resps, i + 1,
                           [res |-> Append(acc.res, MakeStream(r.data)), requests |-> reqs])

\* etsiPAdES.makeOCSPRequests
makeOCSPRequests(a, resps) ==
    IF a.caCert = Nil THEN [err |-> NoError, res |-> <<>>, requests |-> <<>>]
    ELSE OCSPLoop(a, resps, 1, [res |-> <<>>, requests |-> <<>>])

----------------------------------------------------------------------------
(* Sign *)

\* a fresh model.DSS with an empty VRI map
NewDSS == [Certs |-> <<>>, OCSPs |-> <<>>, CLRs |-> <<>>, VRI |-> <<>>]

\* dss.DSSCerts, the struct embedded in model.DSS
DSSCerts(d) == [Certs |-> d.Certs, OCSPs |-> d.OCSPs, CLRs |-> d.CLRs]

\* bytes added to len(detachedSignature) for the Contents buffer (1024*2)
ContentsSlack == 2048

Panic == <<"panic", "nil pointer dereference">>

SignOutcome(err, sg, d, reqs) == [err |-> err, sig |-> sg, dss |-> d, requests |-> reqs]

\* SignKey over detachedSignature, without the zero bytes that follow it
SignKeyUnpadded(data) == VRIKey([data EXCEPT !.len = DerLen(data.der)])

\* the VRI key Sign computes from data, the bytes it stored in Contents
SignKey(data) == VRIKey(data)

\* what the collection phase of Sign (after Contents is set) does to the DSS d
SignCollect(a, sg, d, data, net, reqs) ==
    LET key == SignKey(data)
        d1 == [d EXCEPT !.Certs = Append(@, MakeStream(a.certificate))]
        ocsp == makeOCSPRequests(a, net.ocsp)
        d2 == [d1 EXCEPT !.OCSPs = ocsp.res]
        crl == makeCRLRequests(a, net.crl)
        d3 == [d2 EXCEPT !.CLRs = crl.res]
        d4 == [d3 EXCEPT !.VRI = (key :> DSSCerts(d3)) @@ @]
    IN  IF ocsp.err # NoError THEN SignOutcome(ocsp.err, sg, d1, reqs \o ocsp.requests)
        ELSE IF crl.err # NoError
             THEN SignOutcome(crl.err, sg, d2, reqs \o ocsp.requests \o crl.requests)
        ELSE SignOutcome(NoError, sg, d4, reqs \o ocsp.requests \o crl.requests)

\* Sign that writes Contents before it asks for the timestamp
SignStoresFirst(a, sg, d, content, net) ==
    IF a.certificate = Nil \/ a.privateKey = Nil THEN SignOutcome(Panic, sg, d, <<>>)
    ELSE
    LET chain == IF a.caCert # Nil THEN <<a.caCert>> ELSE <<>>
        sd0 == SignedData(content, a.certificate, a.privateKey, chain)
        stamped == Len(a.timestampServerURL) > 0
        ts == makeTimestampRequest(a.timestampServerURL, net.ts)
        reqs == IF stamped THEN <<Request("timestamp", a.timestampServerURL)>> ELSE <<>>
        sd == IF stamped THEN [sd0 EXCEPT !.token = ts.token] ELSE sd0
        data == Bytes(sd, DerLen(sd) + ContentsSlack)
        sg1 == [sg EXCEPT !.Contents = data]
    IN  IF stamped /\ ts.err # NoError THEN SignOutcome(ts.err, sg1, d, reqs)
        ELSE IF a.isInitializing THEN SignOutcome(NoError, sg1, d, reqs)
        ELSE IF d = Nil THEN SignOutcome(Panic, sg1, d, reqs)
        ELSE SignCollect(a, sg1, d, data, net, reqs)

\* etsiPAdES.Sign(sig, digest) on handler a, whose DSS is d (Nil for a nil
\* pointer), with the digest holding `content'; net is what the network answers
Sign(a, sg, d, content, net) ==
    IF a.certificate = Nil \/ a.privateKey = Nil THEN SignOutcome(Panic, sg, d, <<>>)
    ELSE
    LET chain == IF a.caCert # Nil THEN <<a.caCert>> ELSE <<>>
        sd0 == SignedData(content, a.certificate, a.privateKey, chain)
        stamped == Len(a.timestampServerURL) > 0
        ts == makeTimestampRequest(a.timestampServerURL, net.ts)
        reqs == IF stamped THEN <<Request("timestamp", a.timestampServerURL)>> ELSE <<>>
        sd == IF stamped THEN [sd0 EXCEPT !.token = ts.token] ELSE sd0
        data == Bytes(sd, DerLen(sd) + ContentsSlack)
        sg1 == [sg EXCEPT !.Contents = data]
    IN  IF stamped /\ ts.err # NoError THEN SignOutcome(ts.err, sg, d, reqs)
        ELSE IF a.isInitializing THEN SignOutcome(NoError, sg1, d, reqs)
        ELSE IF d = Nil THEN SignOutcome(Panic, sg1, d, reqs)
        ELSE SignCollect(a, sg1, d, data, net, reqs)

\* one step of Sign: a call it makes or a field it assigns; url is the server of
\* a network request, "" otherwise
Step(name, url) == [step |-> name, url |-> url]

\* the requests of a log as steps
RequestSteps(reqs) == [i \in 1..Len(reqs) |-> Step(reqs[i].kind, reqs[i].url)]

\* the steps etsiPAdES.Sign takes, in the order of its statements, up to its return
SignSteps(a, d, content, net) ==
    IF a.certificate = Nil \/ a.privateKey = Nil THEN <<Step("NewSignedData", "")>>
    ELSE
    LET stamped == Len(a.timestampServerURL) > 0
        ts == makeTimestampRequest(a.timestampServerURL, net.ts)
        ocsp == makeOCSPRequests(a, net.ocsp)
        crl == makeCRLRequests(a, net.crl)
        signed == <<Step("NewSignedData", ""), Step("AddSignerChain", ""), Step("Detach", "")>>
                  \o (IF stamped THEN <<Step("timestamp", a.timestampServerURL)>> ELSE <<>>)
        stored == signed
                  \o (IF stamped THEN <<Step("SetUnauthenticatedAttributes", "")>> ELSE <<>>)
                  \o <<Step("Finish", ""), Step("Contents", "")>>
        queried == stored \o <<Step("Certs", "")>> \o RequestSteps(ocsp.requests)
        fetched == queried \o <<Step("OCSPs", "")>> \o RequestSteps(crl.requests)
    IN  IF stamped /\ ts.err # NoError THEN signed
        ELSE IF a.isInitializing THEN stored
        ELSE IF d = Nil THEN stored
        ELSE IF ocsp.err # NoError THEN queried
        ELSE IF crl.err # NoError THEN fetched
        ELSE fetched \o <<Step("CLRs", ""), Step("VRI", "")>>

----------------------------------------------------------------------------
(* The digest: a *bytes.Buffer *)

\* etsiPAdES.NewDigest(sig): bytes.NewBuffer(nil); buf holds what was written, off
\* is the read offset
NewDigest(sg) == [buf |-> <<>>, off |-> 0]

\* digest.Write(p): p is appended
Write(b, p) == [b EXCEPT !.buf = Append(@, p)]

\* a read that drains the buffer, as buffer.Next(buffer.Len()) does
ReadDigestDraining(b) ==
    [bytes |-> SubSeq(b.buf, b.off + 1, Len(b.buf)), buffer |-> [b EXCEPT !.off = Len(b.buf)]]

\* digest.(*bytes.Buffer).Bytes(): the unread bytes, and the buffer after the call
ReadDigest(b) == [bytes |-> SubSeq(b.buf, b.off + 1, Len(b.buf)), buffer |-> b]

\* the content the bytes read from a digest are: what one Write wrote, or the
\* sequence of what several wrote
Content(bytes) == IF Len(bytes) = 1 THEN bytes[1] ELSE bytes

----------------------------------------------------------------------------
(* Validate *)

\* model.SignatureValidationResult{}
EmptyResult ==
    [IsSigned |-> FALSE, IsVerified |-> FALSE, IsVRIFound |-> FALSE,
     IsOCSPsFound |-> FALSE, IsVerifiedByOCSPs |-> FALSE,
     IsCLRsFound |-> FALSE, IsVerifiedByCLRs |-> FALSE, Errors |-> <<>>]

\* a string appended to result.Errors
ErrorText(kind, msg, serial) == [kind |-> kind, msg |-> msg, serial |-> serial]

Revoked(serial) == ErrorText("revoked", "Certificate with SerialNumber is revoked", serial)

\* pkcs7.Parse(signed): the zero bytes after the DER object are not read
Parse(signed) ==
    IF signed.damage = "structure" THEN <<"pkcs7", "parse failed">> ELSE NoError

\* p7.Verify() with p7.Content set to the digest's bytes
Verify(signed, content) ==
    IF signed.damage = "signature" \/ signed.der.messageDigest # <<"sha1", content>>
    THEN <<"pkcs7", "verification failed">> ELSE NoError

\* the VRI entry for vriKey in the reader's DSS, Nil when there is none
LookupVRI(r, vriKey) ==
    IF r # Nil /\ r.DSS # Nil /\ vriKey \in DOMAIN r.DSS.VRI THEN r.DSS.VRI[vriKey] ELSE Nil

\* the loop over vri.Certs: the first certificate that does not parse, 0 if all do
RECURSIVE FirstUnparsable(_, _)
FirstUnparsable(certs, i) ==
    IF i > Len(certs) THEN 0
    ELSE IF ~certs[i].Stream.valid THEN i
    ELSE FirstUnparsable(certs, i + 1)

\* the loop that picks the issuer among the VRI certificates: the last match wins
RECURSIVE FindIssuer(_, _, _, _)
FindIssuer(certs, i, signer, issuer) ==
    IF i > Len(certs) THEN issuer
    ELSE LET cert == certs[i].Stream
         IN  IF cert.subjectSN = signer.issuerSN /\ cert.subjectCN = signer.issuerCN
             THEN FindIssuer(certs, i + 1, signer, cert)
             ELSE FindIssuer(certs, i + 1, signer, issuer)

\* CheckOCSPs in which every response that parses sets the flag again
RECURSIVE CheckOCSPsLastWins(_, _, _, _, _)
CheckOCSPsLastWins(ocsps, i, signer, issuer, result) ==
    IF i > Len(ocsps) THEN result
    ELSE LET e == ParseResponseForCert(ocsps[i].Stream, signer, issuer)
             r1 == IF e # NoError
                   THEN [result EXCEPT !.Errors = Append(@, ErrorText(e[1], e[2], 0)),
                                       !.IsVerifiedByOCSPs = FALSE]
                   ELSE [result EXCEPT !.IsVerifiedByOCSPs = TRUE]
         IN  CheckOCSPsLastWins(ocsps, i + 1, signer, issuer, r1)

\* the loop over vri.OCSPs from entry i on
RECURSIVE CheckOCSPs(_, _, _, _, _)
CheckOCSPs(ocsps, i, signer, issuer, result) ==
    IF i > Len(ocsps) THEN result
    ELSE LET r0 == IF i = 1 THEN [result EXCEPT !.IsVerifiedByOCSPs = TRUE] ELSE result
             e == ParseResponseForCert(ocsps[i].Stream, signer, issuer)
             r1 == IF e # NoError
                   THEN [r0 EXCEPT !.Errors = Append(@, ErrorText(e[1], e[2], 0)),
                                   !.IsVerifiedByOCSPs = FALSE]
                   ELSE r0
         IN  CheckOCSPs(ocsps, i + 1, signer, issuer, r1)

\* the loop over the VRI certificates for one revoked entry rc
RECURSIVE CheckRevokedCerts(_, _, _, _, _)
CheckRevokedCerts(rc, certs, k, signer, result) ==
    IF k > Len(certs) THEN result
    ELSE LET r1 == IF rc = certs[k].Stream.serial
                   THEN [result EXCEPT !.Errors = Append(@, Revoked(signer.serial)),
                                       !.IsVerifiedByCLRs = FALSE]
                   ELSE result
         IN  CheckRevokedCerts(rc, certs, k + 1, signer, r1)

\* the loop over clr.TBSCertList.RevokedCertificates from entry j on
RECURSIVE CheckRevoked(_, _, _, _, _)
CheckRevoked(revoked, j, certs, signer, result) ==
    IF j > Len(revoked) THEN result
    ELSE LET r1 == IF revoked[j] = signer.serial
                   THEN [result EXCEPT !.Errors = Append(@, Revoked(signer.serial)),
                                       !.IsVerifiedByCLRs = FALSE]
                   ELSE result
             r2 == CheckRevokedCerts(revoked[j], certs, 1, signer, r1)
         IN  CheckRevoked(revoked, j + 1, certs, signer, r2)

\* CheckCLRs in which every CRL sets the flag again before it is read
RECURSIVE CheckCLRsReset(_, _, _, _, _)
CheckCLRsReset(clrs, i, certs, signer, result) ==
    IF i > Len(clrs) THEN result
    ELSE LET r0 == [result EXCEPT !.IsVerifiedByCLRs = TRUE]
             clr == clrs[i].Stream
             r1 == IF ~clr.wellformed
                   THEN [r0 EXCEPT !.Errors = Append(@, ErrorText("crl", "failed to parse", 0)),
                                   !.IsVerifiedByCLRs = FALSE]
                   ELSE CheckRevoked(clr.revoked, 1, certs, signer, r0)
         IN  CheckCLRsReset(clrs, i + 1, certs, signer, r1)

\* the loop over vri.CLRs from entry i on
RECURSIVE CheckCLRs(_, _, _, _, _)
CheckCLRs(clrs, i, certs, signer, result) ==
    IF i > Len(clrs) THEN result
    ELSE LET r0 == IF i = 1 THEN [result EXCEPT !.IsVerifiedByCLRs = TRUE] ELSE result
             clr == clrs[i].Stream
             r1 == IF ~clr.wellformed
                   THEN [r0 EXCEPT !.Errors = Append(@, ErrorText("crl", "failed to parse", 0)),
                                   !.IsVerifiedByCLRs = FALSE]
                   ELSE CheckRevoked(clr.revoked, 1, certs, signer, r0)
         IN  CheckCLRs(clrs, i + 1, certs, signer, r1)

Returned(err, result) == [err |-> err, result |-> result]

\* the part of ValidateEx that reads the evidence of the VRI entry
CheckEvidence(vri, signer, issuer, result) ==
    LET r1 == [result EXCEPT !.IsOCSPsFound = Len(vri.OCSPs) > 0]
        r2 == CheckOCSPs(vri.OCSPs, 1, signer, issuer, r1)
        r3 == [r2 EXCEPT !.IsCLRsFound = Len(vri.CLRs) > 0]
    IN  CheckCLRs(vri.CLRs, 1, vri.Certs, signer, r3)

\* ValidateEx that reports a failed verification in the result, not as an error
ValidateExSoft(signed, content, r) ==
    LET vri == LookupVRI(r, VRIKey(signed))
        bad == IF vri # Nil THEN FirstUnparsable(vri.Certs, 1) ELSE 0
        signer == signed.der.signer
        issuer == FindIssuer(IF vri # Nil THEN vri.Certs ELSE <<>>, 1, signer, Nil)
        result == [EmptyResult EXCEPT !.IsSigned = TRUE,
                                      !.IsVerified = (Verify(signed, content) = NoError),
                                      !.IsVRIFound = (vri # Nil)]
    IN  IF Parse(signed) # NoError THEN Returned(Parse(signed), EmptyResult)
        ELSE IF bad # 0 THEN Returned(<<"x509", "malformed certificate">>, EmptyResult)
        ELSE IF vri # Nil THEN Returned(NoError, CheckEvidence(vri, signer, issuer, result))
        ELSE Returned(NoError, result)

\* ValidateEx that fails when no VRI entry is found for the fingerprint
ValidateExNeedsVRI(signed, content, r) ==
    LET vri == LookupVRI(r, VRIKey(signed))
        bad == IF vri # Nil THEN FirstUnparsable(vri.Certs, 1) ELSE 0
        signer == signed.der.signer
        issuer == FindIssuer(IF vri # Nil THEN vri.Certs ELSE <<>>, 1, signer, Nil)
        result == [EmptyResult EXCEPT !.IsSigned = TRUE, !.IsVerified = TRUE,
                                      !.IsVRIFound = TRUE]
    IN  IF Parse(signed) # NoError THEN Returned(Parse(signed), EmptyResult)
        ELSE IF vri = Nil THEN Returned(<<"dss", "no VRI entry">>, EmptyResult)
        ELSE IF bad # 0 THEN Returned(<<"x509", "malformed certificate">>, EmptyResult)
        ELSE IF Verify(signed, content) # NoError
             THEN Returned(Verify(signed, content), EmptyResult)
        ELSE Returned(NoError, CheckEvidence(vri, signer, issuer, result))

\* etsiPAdES.ValidateEx(sig, digest, r): signed is sig.Contents.Bytes(), content
\* what the digest holds, r the reader (Nil for none)
ValidateEx(signed, content, r) ==
    LET vriKey == VRIKey(signed)
        vri == LookupVRI(r, vriKey)
        bad == IF vri # Nil THEN FirstUnparsable(vri.Certs, 1) ELSE 0
        vriCertificates == IF vri # Nil THEN vri.Certs ELSE <<>>
        signer == signed.der.signer
        issuer == FindIssuer(vriCertificates, 1, signer, Nil)
        result == [EmptyResult EXCEPT !.IsSigned = TRUE, !.IsVerified = TRUE,
                                      !.IsVRIFound = (vri # Nil)]
    IN  IF Parse(signed) # NoError THEN Returned(Parse(signed), EmptyResult)
        ELSE IF bad # 0 THEN Returned(<<"x509", "malformed certificate">>, EmptyResult)
        ELSE IF Verify(signed, content) # NoError
             THEN Returned(Verify(signed, content), EmptyResult)
        ELSE IF vri # Nil THEN Returned(NoError, CheckEvidence(vri, signer, issuer, result))
        ELSE Returned(NoError, result)

\* etsiPAdES.Validate(sig, digest)
Validate(signed, content) == ValidateEx(signed, content, Nil)

----------------------------------------------------------------------------
(* Answers to the requests one Sign issues: a request that is not issued *)
(* has no answer *)

\* the answers to the OCSP requests for servers i.., up to the first one that makes
\* makeOCSPRequest fail
RECURSIVE OCSPAnswers(_, _)
OCSPAnswers(a, i) ==
    IF a.caCert = Nil \/ i > Len(a.ocspServers) THEN {<<>>}
    ELSE UNION {IF makeOCSPRequest(a.ocspServers[i], a.certificate, a.caCert, r).err # NoError
                THEN {<<r>>}
                ELSE {<<r>> \o rest : rest \in OCSPAnswers(a, i + 1)} : r \in OCSPResponses(a.ocspServers[i])}

\* the answers to the CRL requests for servers i.., up to the first one that makes
\* makeCRLRequest fail
RECURSIVE CRLAnswers(_, _)
CRLAnswers(a, i) ==
    IF i > Len(a.crlDistributionPoints) THEN {<<>>}
    ELSE UNION {IF makeCRLRequest(a.crlDistributionPoints[i], r).err # NoError
                THEN {<<r>>}
                ELSE {<<r>> \o rest : rest \in CRLAnswers(a, i + 1)} : r \in CRLResponses(a.crlDistributionPoints[i])}

\* no timestamp request is issued
NoAnswer == [transport |-> FALSE, status |-> 0, decodes |-> FALSE, len |-> 0]

TSAnswers(a) == IF Len(a.timestampServerURL) > 0 THEN TSResponses ELSE {NoAnswer}

\* the answers to a sizing Sign: it returns before the DSS is filled
SizingAnswers(a) == {[ts |-> ts, ocsp |-> <<>>, crl |-> <<>>] : ts \in TSAnswers(a)}

\* the answers to a real Sign by handler a
SignAnswers(a) ==
    UNION {IF Len(a.timestampServerURL) > 0 /\ makeTimestampRequest(a.timestampServerURL, ts).err # NoError
           THEN {[ts |-> ts, ocsp |-> <<>>, crl |-> <<>>]}
           ELSE UNION {IF Len(o) > 0 /\ makeOCSPRequest(a.ocspServers[Len(o)], a.certificate, a.caCert, o[Len(o)]).err # NoError
                       THEN {[ts |-> ts, ocsp |-> o, crl |-> <<>>]}
                       ELSE {[ts |-> ts, ocsp |-> o, crl |-> c] : c \in CRLAnswers(a, 1)}
                       : o \in OCSPAnswers(a, 1)}
           : ts \in TSAnswers(a)}

----------------------------------------------------------------------------
(* HtmlParagraph (creator/html_paragraph.go): Append walks the parsed node *)
(* tree with processNode.  A call of processNode that reaches its loop     *)
(* over the children is a frame of the call stack; the children of a node  *)
(* are inputs, drawn one at a time when the loop reaches them.  A style is *)
(* modelled by its font, its flags, its alignment and its element style;   *)
(* the paragraph has its bold, italic and bold-italic fonts set.           *)

\* h.styleStack.RegularStyle and the three fonts
RegularStyle == [Font |-> "regular"]

BoldFont == "bold"

ItalicFont == "italic"

BoldItalicFont == "bolditalic"

\* html.Node: its Type, its Data and the key of its attribute ("" for none)
Node(type, data, attr) == [Type |-> type, Data |-> data, Attr |-> attr]

\* the elements parseNodeStyle is called for
Styled == {"table", "td", "th", "p"}

\* the tags of the elements a tree is made of; "body" stands for every tag
\* processNode has no case for
Tags == {"style", "script", "table", "tr", "td", "th", "p", "br", "b", "i", "body"}

\* the attributes of an element: none, align="center", style="background-color: red"
Attrs == {"", "align", "style"}

\* the nodes a tree is made of below the document node
Nodes ==
    {Node("Text", "text", "")}
    \cup {Node("Element", d, "") : d \in Tags}
    \cup {Node("Element", d, a) : d \in Styled, a \in Attrs}

\* htmlStyleStack.currentStyle
currentStyle(ss) ==
    IF Len(ss) = 0
    THEN [TextStyle |-> RegularStyle, Bold |-> FALSE, Italic |-> FALSE,
          TextAlignment |-> "left", ElementStyle |-> Nil]
    ELSE ss[Len(ss)]

\* htmlStyleStack.pushStyle: the stack after the call
pushStyle(ss, style) == Append(ss, [style EXCEPT !.ElementStyle = Nil])

\* htmlStyleStack.popStyle: the stack after the call
popStyle(ss) == IF Len(ss) < 1 THEN ss ELSE SubSeq(ss, 1, Len(ss) - 1)

\* htmlStyleStack.addBold
addBold(ss) ==
    LET style == currentStyle(ss)
    IN  [style EXCEPT !.Bold = TRUE,
                      !.TextStyle.Font = IF style.Italic THEN BoldItalicFont ELSE BoldFont]

\* htmlStyleStack.addItalic
addItalic(ss) ==
    LET style == currentStyle(ss)
    IN  [style EXCEPT !.Italic = TRUE,
                      !.TextStyle.Font = IF style.Bold THEN BoldItalicFont ELSE ItalicFont]

\* htmlBlock.parseNodeStyle (addEmbeddedCSS for a background-color)
parseNodeStyle(ss, node) ==
    LET style == currentStyle(ss)
    IN  CASE node.Attr = "align" -> [style EXCEPT !.TextAlignment = "center"]
          [] node.Attr = "style" -> [style EXCEPT !.ElementStyle = [backgroundColor |-> "red"]]
          [] OTHER -> style

\* &htmlTable{}
NewHtmlTable == [maxColIndex |-> 0, rows |-> <<>>]

\* htmlTableStack.currentTable: the address of the table, 0 for nil
currentTable(ts) == IF Len(ts) = 0 THEN 0 ELSE ts[Len(ts)]

\* htmlTableStack.popTable: the stack after the call
popTable(ts) == IF Len(ts) < 1 THEN ts ELSE SubSeq(ts, 1, Len(ts) - 1)

\* newHtmlBlock, and the htmlBlock literal of Append (parent 0 for nil)
newHtmlBlock(parent, style) ==
    [parent |-> parent, elements |-> <<>>, currentParagraph |-> 0, style |-> style]

\* newStyledParagraph
newStyledParagraph(style) ==
    [kind |-> "paragraph", defaultStyle |-> style, alignment |-> "left", chunks |-> <<>>]

\* htmlBlock.getCurrentOrCreateParagraph on block blk: the block after the call and
\* whether a paragraph was created; currentParagraph is the place of the
\* paragraph in elements
getCurrentOrCreateParagraph(blk) ==
    IF blk.currentParagraph = 0
    THEN [block |-> [blk EXCEPT !.elements = Append(@, newStyledParagraph(RegularStyle)),
                                !.currentParagraph = Len(blk.elements) + 1],
          created |-> TRUE]
    ELSE [block |-> blk, created |-> FALSE]

\* the block after text has been appended to its current paragraph, as the cases
\* of a text node (with the current style) and of br (with the paragraph's) do
AppendText(blk, ss, text, styled) ==
    LET g == getCurrentOrCreateParagraph(blk)
        p == g.block.currentParagraph
        b1 == IF g.created
              THEN [g.block EXCEPT !.elements[p].alignment = currentStyle(ss).TextAlignment]
              ELSE g.block
        style == IF styled THEN currentStyle(ss).TextStyle ELSE b1.elements[p].defaultStyle
    IN  [b1 EXCEPT !.elements[p].chunks = Append(@, [Text |-> text, Style |-> style])]

\* a call of processNode up to its loop: the two stacks, the tables and the
\* blocks as they are, the block the children go to, the deferred calls in the
\* order they were deferred, and whether the call is done before the loop
Running(b, ss, ts, tbls, blks) ==
    [styleStack |-> ss, tableStack |-> ts, tables |-> tbls, blocks |-> blks,
     newB |-> b, defers |-> <<>>, done |-> FALSE]

\* case "table"
caseTable(b, node, m) ==
    LET t == Len(m.tables) + 1
    IN  [m EXCEPT !.tables = Append(@, NewHtmlTable),
                  !.tableStack = Append(@, t),
                  !.styleStack = pushStyle(@, parseNodeStyle(m.styleStack, node)),
                  !.blocks[b].elements = Append(@, [kind |-> "table", table |-> t]),
                  !.defers = <<"popStyle", "popTable">>]

\* case "tr"
caseTr(m) ==
    LET t == currentTable(m.tableStack)
    IN  IF t # 0 THEN [m EXCEPT !.tables[t].rows = Append(@, <<>>)] ELSE m

\* the table after cell has gone to its first row
AddCellToFirstRow(t, cell) ==
    LET l == Len(t.rows[1]) + 1
    IN  [t EXCEPT !.rows[1] = Append(@, cell),
                  !.maxColIndex = IF l > @ THEN l ELSE @]

\* case "td", "th": the table after cell has been appended to its last row
AddCell(t, cell) ==
    LET l == Len(t.rows[Len(t.rows)]) + 1
    IN  [t EXCEPT !.rows[Len(t.rows)] = Append(@, cell),
                  !.maxColIndex = IF l > @ THEN l ELSE @]

\* case "td", "th": the part both share
caseTd(b, node, m) ==
    LET t == currentTable(m.tableStack)
    IN  IF t # 0 /\ Len(m.tables[t].rows) > 0
        THEN LET newB == Len(m.blocks) + 1
                 style == parseNodeStyle(m.styleStack, node)
             IN  [m EXCEPT !.blocks = Append(@, newHtmlBlock(b, style)),
                           !.newB = newB,
                           !.styleStack = pushStyle(@, style),
                           !.defers = Append(@, "popStyle"),
                           !.tables[t] = AddCell(@, newB)]
        ELSE m

\* case "th" with the bold style pushed and never popped
caseThNoDefer(m) ==
    [m EXCEPT !.styleStack = pushStyle(@, addBold(m.styleStack))]

\* case "td", "th": the part of th alone
caseTh(m) ==
    [m EXCEPT !.styleStack = pushStyle(@, addBold(m.styleStack)),
              !.defers = Append(@, "popStyle")]

\* case "p"
caseP(b, node, m) ==
    LET ss == pushStyle(m.styleStack, parseNodeStyle(m.styleStack, node))
        p == [newStyledParagraph(currentStyle(ss).TextStyle)
                 EXCEPT !.alignment = currentStyle(ss).TextAlignment]
    IN  [m EXCEPT !.styleStack = ss,
                  !.defers = <<"popStyle">>,
                  !.blocks[b].elements = Append(@, p),
                  !.blocks[b].currentParagraph = Len(m.blocks[b].elements) + 1]

\* case "b"
caseB(m) ==
    [m EXCEPT !.styleStack = pushStyle(@, addBold(m.styleStack)), !.defers = <<"popStyle">>]

\* case "i"
caseI(m) ==
    [m EXCEPT !.styleStack = pushStyle(@, addItalic(m.styleStack)), !.defers = <<"popStyle">>]

\* htmlBlock.processNode on block b, up to the loop over the children
processNode(b, node, ss, ts, tbls, blks) ==
    LET m == Running(b, ss, ts, tbls, blks)
    IN  CASE node.Type = "Text" ->
                 [m EXCEPT !.blocks[b] = AppendText(@, ss, node.Data, TRUE), !.done = TRUE]
          [] node.Type = "Element" /\ node.Data \in {"style", "script"} ->
                 [m EXCEPT !.done = TRUE]
          [] node.Type = "Element" /\ node.Data = "table" -> caseTable(b, node, m)
          [] node.Type = "Element" /\ node.Data = "tr" -> caseTr(m)
          [] node.Type = "Element" /\ node.Data = "td" -> caseTd(b, node, m)
          [] node.Type = "Element" /\ node.Data = "th" -> caseTh(caseTd(b, node, m))
          [] node.Type = "Element" /\ node.Data = "p" -> caseP(b, node, m)
          [] node.Type = "Element" /\ node.Data = "br" ->
                 [m EXCEPT !.blocks[b] = AppendText(@, ss, "\n", FALSE)]
          [] node.Type = "Element" /\ node.Data = "b" -> caseB(m)
          [] node.Type = "Element" /\ node.Data = "i" -> caseI(m)
          [] OTHER -> m

\* the deferred calls of a processNode that returns, last deferred first: the two
\* stacks after them
RECURSIVE runDefers(_, _, _)
runDefers(defers, ss, ts) ==
    IF defers = <<>> THEN [styleStack |-> ss, tableStack |-> ts]
    ELSE LET rest == SubSeq(defers, 1, Len(defers) - 1)
         IN  IF defers[Len(defers)] = "popStyle"
             THEN runDefers(rest, popStyle(ss), ts)
             ELSE runDefers(rest, ss, popTable(ts))

\* a call of processNode that is in its loop: the node, the block its children
\* go to, its deferred calls, and (history) the two stacks as they were when the
\* call was made
Frame(node, m, ss, ts) ==
    [node |-> node, newB |-> m.newB, defers |-> m.defers,
     entry |-> [styleStack |-> ss, tableStack |-> ts]]

\* newHtmlParagraph: no block, two empty stacks; no call of Append yet
newHtmlParagraph ==
    /\ hBlocks = <<>>
    /\ styleStack = <<>>
    /\ tableStack = <<>>
    /\ tables = <<>>
    /\ blocks = <<>>
    /\ frames = <<>>
    /\ visited = 0
    /\ returned = <<>>

\* HtmlParagraph.Append: html.Parse fails, or a block is added to h.blocks and
\* processNode is called on the document node
HtmlParagraphAppend(parsed) ==
    /\ frames = <<>>
    /\ Len(returned) < MaxAppends
    /\ IF parsed
       THEN LET newB == Len(blocks) + 1
                blks == Append(blocks, newHtmlBlock(0, currentStyle(<<>>)))
                doc == Node("Document", "", "")
                m == processNode(newB, doc, styleStack, tableStack, tables, blks)
            IN  /\ hBlocks' = Append(hBlocks, newB)
                /\ blocks' = m.blocks
                /\ frames' = <<Frame(doc, m, styleStack, tableStack)>>
                /\ UNCHANGED returned
       ELSE /\ returned' = Append(returned, <<"html.Parse">>)
            /\ UNCHANGED <<hBlocks, blocks, frames>>
    /\ UNCHANGED <<styleStack, tableStack, tables, visited>>
    /\ UNCHANGED padesVars

\* the loop of processNode reaches a child: newB.processNode(next) up to its
\* return or to its own loop
processNodeCall(next) ==
    /\ frames # <<>>
    /\ visited < MaxNodes
    /\ LET newB == frames[Len(frames)].newB
           m == processNode(newB, next, styleStack, tableStack, tables, blocks)
       IN  /\ styleStack' = m.styleStack
           /\ tableStack' = m.tableStack
           /\ tables' = m.tables
           /\ blocks' = m.blocks
           /\ frames' = IF m.done THEN frames
                        ELSE Append(frames, Frame(next, m, styleStack, tableStack))
    /\ visited' = visited + 1
    /\ UNCHANGED <<hBlocks, returned>>
    /\ UNCHANGED padesVars

\* the loop of processNode has no child left: the call runs its deferred calls
\* and returns nil; when it is the call on the document node, Append returns nil
processNodeReturn ==
    /\ frames # <<>>
    /\ LET top == frames[Len(frames)]
           after == runDefers(top.defers, styleStack, tableStack)
       IN  /\ styleStack' = after.styleStack
           /\ tableStack' = after.tableStack
    /\ frames' = SubSeq(frames, 1, Len(frames) - 1)
    /\ returned' = IF Len(frames) = 1 THEN Append(returned, NoError) ELSE returned
    /\ UNCHANGED <<hBlocks, tables, blocks, visited>>
    /\ UNCHANGED padesVars

NextHtml ==
    \/ \E parsed \in BOOLEAN : HtmlParagraphAppend(parsed)
    \/ \E next \in Nodes : processNodeCall(next)
    \/ processNodeReturn

----------------------------------------------------------------------------
(* State *)

Sigs == {"s1", "s2"}

\* the signature the runs with one signature work on
FirstSig == {"s1"}

\* a model.PdfSignature before any handler touched it; a nil name is <<>>
NewPdfSignature ==
    [Filter |-> <<>>, SubFilter |-> <<>>, Contents |-> Nil, Handler |-> Nil, Reference |-> Nil]

NoResult == Returned(NoError, EmptyResult)

Call(op, arg, err, requests, out) ==
    [op |-> op, arg |-> arg, err |-> err, requests |-> requests, out |-> out]

\* the addresses of the DSS objects that h and the signatures sg hold
Live(h, sg) ==
    (IF h # Nil /\ h.dss # 0 THEN {h.dss} ELSE {})
    \cup {sg[x].Handler.dss : x \in {y \in Sigs : sg[y].Handler # Nil}}

\* the DSS that handler a points to, Nil for a nil pointer
DSSOf(a) == IF a.dss = 0 THEN Nil ELSE heap[a.dss]

Init ==
    /\ handler = Nil
    /\ sig = [s \in Sigs |-> NewPdfSignature]
    /\ heap = <<>>
    /\ reserved = [s \in Sigs |-> 0]
    /\ last = Call("none", Nil, NoError, <<>>, Nil)
    /\ digest = Nil
    /\ newHtmlParagraph

\* PAdESLevelB.New, PAdESLevelT.New, PAdESLevelLT.New, PAdESLevelLTA.New: the first
\* call of the run (a builder reads its parameters only, so a call after a failed
\* one returns what it would have returned at first)
New(level, p) ==
    /\ last.op = "none"
    /\ LET r == BuilderNew(level, p)
       IN  /\ handler' = r.handler
           /\ last' = Call("New", [level |-> level, p |-> p], r.err, <<>>, r)
    /\ UNCHANGED <<sig, heap, reserved, digest, htmlVars>>

\* NewEmptyPAdES()
NewEmptyPAdES ==
    [EtsiPAdES(Nil, Nil, Nil, <<>>, <<>>, "") EXCEPT !.emptySignature = TRUE]

\* a call of NewEmptyPAdES as the first call of the run
NewEmpty ==
    /\ last.op = "none"
    /\ handler' = NewEmptyPAdES
    /\ last' = Call("NewEmpty", Nil, NoError, <<>>, Nil)
    /\ UNCHANGED <<sig, heap, reserved, digest, htmlVars>>

\* InitSignature that creates a DSS only when the handler has none in use
InitSignatureKeepsDSS(s, net) ==
    /\ handler # Nil
    /\ IF ~handler.emptySignature /\ handler.certificate = Nil
       THEN /\ last' = Call("InitSignature", s, <<"certificate must not be nil">>, <<>>, <<>>)
            /\ UNCHANGED <<handler, sig, heap, reserved, digest, htmlVars>>
       ELSE IF ~handler.emptySignature /\ handler.privateKey = Nil
       THEN /\ last' = Call("InitSignature", s, <<"privateKey must not be nil">>, <<>>, <<>>)
            /\ UNCHANGED <<handler, sig, heap, reserved, digest, htmlVars>>
       ELSE
       LET others == Live(Nil, [sig EXCEPT ![s] = NewPdfSignature])
           kept == handler.dss # 0 /\ handler.dss \in others
           addr == IF kept THEN handler.dss
                   ELSE CHOOSE i \in 1..(Cardinality(Sigs) + 1) :
                            /\ i \notin others
                            /\ \A j \in 1..(i - 1) : j \in others
           a == [handler EXCEPT !.dss = addr]
           sg1 == [sig[s] EXCEPT !.Handler = a, !.Filter = <<"Adobe.PPKLite">>,
                                 !.SubFilter = <<"ETSI.CAdES.detached">>,
                                 !.Reference = Nil]
           read == ReadDigest(Write(NewDigest(sg1), ProbePayload))
           out == Sign([a EXCEPT !.isInitializing = TRUE], sg1,
                       IF kept THEN heap[addr] ELSE NewDSS, Content(read.bytes), net)
           copy == [a EXCEPT !.isInitializing = (out.err = Panic)]
       IN  /\ handler' = a
           /\ sig' = [sig EXCEPT ![s] = [out.sig EXCEPT !.Handler = copy]]
           /\ heap' = [i \in others \cup {addr} |-> IF i = addr THEN out.dss ELSE heap[i]]
           /\ reserved' = IF out.err = NoError
                          THEN [reserved EXCEPT ![s] = out.sig.Contents.len]
                          ELSE reserved
           /\ digest' = read.buffer /\ UNCHANGED htmlVars
           /\ last' = Call("InitSignature", s, out.err, out.requests,
                            SignSteps([a EXCEPT !.isInitializing = TRUE], NewDSS,
                                      Content(read.bytes), net))

\* InitSignature that returns the error of the sizing Sign before it clears the
\* initializing flag
InitSignatureReturnsEarly(s, net) ==
    /\ handler # Nil
    /\ IF ~handler.emptySignature /\ handler.certificate = Nil
       THEN /\ last' = Call("InitSignature", s, <<"certificate must not be nil">>, <<>>, <<>>)
            /\ UNCHANGED <<handler, sig, heap, reserved, digest, htmlVars>>
       ELSE IF ~handler.emptySignature /\ handler.privateKey = Nil
       THEN /\ last' = Call("InitSignature", s, <<"privateKey must not be nil">>, <<>>, <<>>)
            /\ UNCHANGED <<handler, sig, heap, reserved, digest, htmlVars>>
       ELSE
       LET others == Live(Nil, [sig EXCEPT ![s] = NewPdfSignature])
           addr == CHOOSE i \in 1..(Cardinality(Sigs) + 1) :
                       /\ i \notin others
                       /\ \A j \in 1..(i - 1) : j \in others
           a == [handler EXCEPT !.dss = addr]
           sg1 == [sig[s] EXCEPT !.Handler = a, !.Filter = <<"Adobe.PPKLite">>,
                                 !.SubFilter = <<"ETSI.CAdES.detached">>,
                                 !.Reference = Nil]
           read == ReadDigest(Write(NewDigest(sg1), ProbePayload))
           out == Sign([a EXCEPT !.isInitializing = TRUE], sg1, NewDSS, Content(read.bytes), net)
           copy == [a EXCEPT !.isInitializing = (out.err # NoError)]
       IN  /\ handler' = a
           /\ sig' = [sig EXCEPT ![s] = [out.sig EXCEPT !.Handler = copy]]
           /\ heap' = [i \in others \cup {addr} |-> IF i = addr THEN out.dss ELSE heap[i]]
           /\ reserved' = IF out.err = NoError
                          THEN [reserved EXCEPT ![s] = out.sig.Contents.len]
                          ELSE reserved
           /\ digest' = read.buffer /\ UNCHANGED htmlVars
           /\ last' = Call("InitSignature", s, out.err, out.requests,
                            SignSteps([a EXCEPT !.isInitializing = TRUE], NewDSS,
                                      Content(read.bytes), net))

\* etsiPAdES.InitSignature(sig) on the builder's handler; ts answers the
\* timestamp request of the sizing Sign
InitSignature(s, net) ==
    /\ handler # Nil
    /\ IF ~handler.emptySignature /\ handler.certificate = Nil
       THEN /\ last' = Call("InitSignature", s, <<"certificate must not be nil">>, <<>>, <<>>)
            /\ UNCHANGED <<handler, sig, heap, reserved, digest, htmlVars>>
       ELSE IF ~handler.emptySignature /\ handler.privateKey = Nil
       THEN /\ last' = Call("InitSignature", s, <<"privateKey must not be nil">>, <<>>, <<>>)
            /\ UNCHANGED <<handler, sig, heap, reserved, digest, htmlVars>>
       ELSE
       LET others == Live(Nil, [sig EXCEPT ![s] = NewPdfSignature])
           addr == CHOOSE i \in 1..(Cardinality(Sigs) + 1) :
                       /\ i \notin others
                       /\ \A j \in 1..(i - 1) : j \in others
           a == [handler EXCEPT !.dss = addr]
           sg1 == [sig[s] EXCEPT !.Handler = a, !.Filter = <<"Adobe.PPKLite">>,
                                 !.SubFilter = <<"ETSI.CAdES.detached">>,
                                 !.Reference = Nil]
           read == ReadDigest(Write(NewDigest(sg1), ProbePayload))
           out == Sign([a EXCEPT !.isInitializing = TRUE], sg1, NewDSS, Content(read.bytes), net)
           copy == [a EXCEPT !.isInitializing = (out.err = Panic)]
       IN  /\ handler' = a
           /\ sig' = [sig EXCEPT ![s] = [out.sig EXCEPT !.Handler = copy]]
           /\ heap' = [i \in others \cup {addr} |-> IF i = addr THEN out.dss ELSE heap[i]]
           /\ reserved' = IF out.err = NoError
                          THEN [reserved EXCEPT ![s] = out.sig.Contents.len]
                          ELSE reserved
           /\ digest' = read.buffer /\ UNCHANGED htmlVars
           /\ last' = Call("InitSignature", s, out.err, out.requests,
                            SignSteps([a EXCEPT !.isInitializing = TRUE], NewDSS,
                                      Content(read.bytes), net))

\* sig.Handler.Sign(sig, digest): the real Sign, by the handler InitSignature
\* stored in the signature
SignReal(s, content, net) ==
    /\ sig[s].Handler # Nil
    /\ LET a == sig[s].Handler
           read == ReadDigest(Write(NewDigest(sig[s]), content))
           out == Sign(a, sig[s], DSSOf(a), Content(read.bytes), net)
       IN  /\ Len(heap[a.dss].Certs) < MaxSigns
           /\ sig' = [sig EXCEPT ![s] = out.sig]
           /\ heap' = [heap EXCEPT ![a.dss] = out.dss]
           /\ digest' = read.buffer /\ UNCHANGED htmlVars
           /\ last' = Call("Sign", [s |-> s, content |-> content], out.err, out.requests,
                            SignSteps(a, DSSOf(a), Content(read.bytes), net))
    /\ UNCHANGED <<handler, reserved>>

\* the ways the bytes of Contents may have been altered before they are validated
Damages == {"none", "structure", "signature", "padding"}

\* the readers ValidateEx may be given: one without DSS, one per DSS written
Readers == {[DSS |-> Nil]} \cup {[DSS |-> heap[i]] : i \in DOMAIN heap}

\* handler.Validate(sig, digest)
ValidateCall(s, content, damage) ==
    /\ handler # Nil
    /\ sig[s].Contents # Nil
    /\ LET signed == [sig[s].Contents EXCEPT !.damage = damage]
           read == ReadDigest(Write(NewDigest(sig[s]), content))
           out == Validate(signed, Content(read.bytes))
       IN  /\ digest' = read.buffer /\ UNCHANGED htmlVars
           /\ last' = Call("Validate", [s |-> s, content |-> content, damage |-> damage, r |-> Nil],
                            out.err, <<>>, out.result)
    /\ UNCHANGED <<handler, sig, heap, reserved>>

\* ValidateEx that removes from every DSS the VRI entries it has looked through
ValidateExCallConsuming(s, content, damage, r) ==
    /\ handler # Nil
    /\ sig[s].Contents # Nil
    /\ LET signed == [sig[s].Contents EXCEPT !.damage = damage]
           read == ReadDigest(Write(NewDigest(sig[s]), content))
           out == ValidateEx(signed, Content(read.bytes), r)
       IN  /\ digest' = read.buffer /\ UNCHANGED htmlVars
           /\ last' = Call("ValidateEx", [s |-> s, content |-> content, damage |-> damage, r |-> r],
                            out.err, <<>>, out.result)
    /\ heap' = [i \in DOMAIN heap |-> [heap[i] EXCEPT !.VRI = <<>>]]
    /\ UNCHANGED <<handler, sig, reserved>>

\* handler.ValidateEx(sig, digest, r)
ValidateExCall(s, content, damage, r) ==
    /\ handler # Nil
    /\ sig[s].Contents # Nil
    /\ LET signed == [sig[s].Contents EXCEPT !.damage = damage]
           read == ReadDigest(Write(NewDigest(sig[s]), content))
           out == ValidateEx(signed, Content(read.bytes), r)
       IN  /\ digest' = read.buffer /\ UNCHANGED htmlVars
           /\ last' = Call("ValidateEx", [s |-> s, content |-> content, damage |-> damage, r |-> r],
                            out.err, <<>>, out.result)
    /\ UNCHANGED <<handler, sig, heap, reserved>>

\* IsApplicable that looks at the Filter only
IsApplicableFilterOnly(sg) ==
    IF sg = Nil \/ sg.Filter = <<>> \/ sg.SubFilter = <<>> THEN FALSE
    ELSE sg.Filter[1] = "Adobe.PPKLite"

\* etsiPAdES.IsApplicable(sig): sg is Nil for a nil pointer; a nil name is <<>>
IsApplicable(sg) ==
    IF sg = Nil \/ sg.Filter = <<>> \/ sg.SubFilter = <<>> THEN FALSE
    ELSE sg.Filter[1] = "Adobe.PPKLite" /\ sg.SubFilter[1] = "ETSI.CAdES.detached"

\* the names a signature dictionary of another origin may carry in Filter and in
\* SubFilter
OtherFilters == {<<>>, <<"Adobe.PPKLite">>, <<"Adobe.PPKMS">>, <<"adobe.ppklite">>}

OtherSubFilters ==
    {<<>>, <<"ETSI.CAdES.detached">>, <<"adbe.pkcs7.detached">>, <<"ETSI.RFC3161">>}

\* signatures read from documents, and the nil pointer
OtherSignatures ==
    {Nil} \cup {[NewPdfSignature EXCEPT !.Filter = f, !.SubFilter = sf] :
                   f \in OtherFilters, sf \in OtherSubFilters}

\* handler.IsApplicable(x): on a signature of the run at any time, on the others
\* right after NewEmptyPAdES (IsApplicable reads its argument only)
IsApplicableCall(x) ==
    /\ handler # Nil
    /\ (\E s \in FirstSig : x = sig[s]) \/ last.op = "NewEmpty"
    /\ last' = Call("IsApplicable", x, NoError, <<>>, IsApplicable(x))
    /\ UNCHANGED <<handler, sig, heap, reserved, digest, htmlVars>>

\* the answers the sizing Sign of InitSignature may get
HandlerAnswers == IF handler = Nil THEN {} ELSE SizingAnswers(handler)

\* the answers a real Sign on signature s may get
SigAnswers(s) == IF sig[s].Handler = Nil THEN {} ELSE SignAnswers(sig[s].Handler)

Next ==
    \/ \E level \in Levels, p \in BuilderParams : New(level, p)
    \/ NewEmpty
    \/ \E s \in FirstSig : \E net \in HandlerAnswers : InitSignature(s, net)
    \/ \E s \in FirstSig, content \in Docs : \E net \in SigAnswers(s) :
           SignReal(s, content, net)
    \/ \E s \in FirstSig, content \in Docs : ValidateCall(s, content, "none")
    \/ \E s \in FirstSig, content \in Docs : \E r \in Readers :
           ValidateExCall(s, content, "none", r)
    \/ \E x \in OtherSignatures \cup {sig[s] : s \in FirstSig} : IsApplicableCall(x)

Spec == Init /\ [][Next]_vars

\* the runs of HtmlParagraph.Append on a new paragraph
SpecHtml == Init /\ [][NextHtml]_vars

----------------------------------------------------------------------------
(* One handler, its setters, and two signatures initialised from it *)

\* the fields of handler a that the setters write
Config(a) == <<a.caCert, a.crlDistributionPoints, a.ocspServers, a.timestampServerURL>>

\* whether the handler is as the last InitSignature copied it: the setters are
\* called at most once between two calls of InitSignature
AsCopied ==
    /\ handler # Nil
    /\ \E s \in Sigs : /\ sig[s].Handler # Nil
                       /\ sig[s].Handler.dss = handler.dss
                       /\ Config(sig[s].Handler) = Config(handler)

\* etsiPAdES.SetCACert(caCert)
SetCACert(caCert) ==
    /\ AsCopied
    /\ handler' = [handler EXCEPT !.caCert = caCert]
    /\ last' = Call("SetCACert", caCert, NoError, <<>>, Nil)
    /\ UNCHANGED <<sig, heap, reserved, digest, htmlVars>>

\* etsiPAdES.AddCRLDistributionPoints(dp...)
AddCRLDistributionPoints(dp) ==
    /\ AsCopied
    /\ Len(handler.crlDistributionPoints) + Len(dp) <= MaxServers
    /\ handler' = [handler EXCEPT !.crlDistributionPoints = @ \o dp]
    /\ last' = Call("AddCRLDistributionPoints", dp, NoError, <<>>, Nil)
    /\ UNCHANGED <<sig, heap, reserved, digest, htmlVars>>

\* AddOCSPServers that also reaches the handlers stored in the signatures
AddOCSPServersThrough(servers) ==
    /\ AsCopied
    /\ Len(handler.ocspServers) + Len(servers) <= MaxServers
    /\ handler' = [handler EXCEPT !.ocspServers = @ \o servers]
    /\ sig' = [s \in Sigs |->
                  IF sig[s].Handler # Nil /\ sig[s].Handler.dss = handler.dss
                  THEN [sig[s] EXCEPT !.Handler.ocspServers = @ \o servers]
                  ELSE sig[s]]
    /\ last' = Call("AddOCSPServers", servers, NoError, <<>>, Nil)
    /\ UNCHANGED <<heap, reserved, digest, htmlVars>>

\* etsiPAdES.AddOCSPServers(servers...)
AddOCSPServers(servers) ==
    /\ AsCopied
    /\ Len(handler.ocspServers) + Len(servers) <= MaxServers
    /\ handler' = [handler EXCEPT !.ocspServers = @ \o servers]
    /\ last' = Call("AddOCSPServers", servers, NoError, <<>>, Nil)
    /\ UNCHANGED <<sig, heap, reserved, digest, htmlVars>>

\* etsiPAdES.SetTimestampServerURL(timestampServerURL)
SetTimestampServerURL(timestampServerURL) ==
    /\ AsCopied
    /\ handler' = [handler EXCEPT !.timestampServerURL = timestampServerURL]
    /\ last' = Call("SetTimestampServerURL", timestampServerURL, NoError, <<>>, Nil)
    /\ UNCHANGED <<sig, heap, reserved, digest, htmlVars>>

\* etsiPAdES.GetDSS() on the original handler, after InitSignature or a Sign
GetDSSCall ==
    /\ handler # Nil
    /\ handler.dss # 0
    /\ last.op \in {"InitSignature", "Sign"}
    /\ last' = Call("GetDSS", Nil, NoError, <<>>, DSSOf(handler))
    /\ UNCHANGED <<handler, sig, heap, reserved, digest, htmlVars>>

\* the handlers the runs with two signatures start from: B-level, and LT-level with
\* one OCSP server and one CRL distribution point
SharedHandlers ==
    LET p == [PrivateKey |-> PrivKey, Certificate |-> LeafCert, CaCert |-> CaCertificate,
              CertificateTimestampServerURL |-> "http://tsa",
              CLRDistributionPoints |-> <<CRLUrl(1)>>, OCSPServers |-> <<OCSPUrl(1)>>,
              TimestampServerURL |-> ""]
    IN  {BuilderNew(level, p).handler : level \in {"B", "LT"}}

InitShared ==
    /\ handler \in SharedHandlers
    /\ sig = [s \in Sigs |-> NewPdfSignature]
    /\ heap = <<>>
    /\ reserved = [s \in Sigs |-> 0]
    /\ last = Call("none", Nil, NoError, <<>>, Nil)
    /\ digest = Nil
    /\ newHtmlParagraph

\* the signature InitSignature is called on next: each is initialised once, s1
\* before s2
NextToInit ==
    IF sig["s1"].Handler = Nil THEN {"s1"}
    ELSE IF sig["s2"].Handler = Nil THEN {"s2"} ELSE {}

\* the timestamp answers of these runs: none asked, a transport failure, a
\* token of the shortest length
SharedTS ==
    {NoAnswer, [transport |-> TRUE, status |-> 0, decodes |-> FALSE, len |-> 0],
     [transport |-> FALSE, status |-> 200, decodes |-> TRUE, len |-> 64]}

NextShared ==
    \/ \E s \in NextToInit : \E net \in {n \in HandlerAnswers : n.ts \in SharedTS} :
           InitSignature(s, net)
    \/ \E s \in Sigs : \E net \in {n \in SigAnswers(s) : n.ts \in SharedTS} :
           SignReal(s, "docA", net)
    \/ \E c \in {Nil, CaCertificate} : SetCACert(c)
    \/ AddCRLDistributionPoints(<<CRLUrl(Len(handler.crlDistributionPoints) + 1)>>)
    \/ AddOCSPServers(<<OCSPUrl(Len(handler.ocspServers) + 1)>>)
    \/ \E url \in {"", "http://tsa"} : SetTimestampServerURL(url)
    \/ GetDSSCall

SpecShared == InitShared /\ [][NextShared]_vars

----------------------------------------------------------------------------
(* Validation of a document written elsewhere: its Contents and the VRI *)
(* entry of its DSS are inputs of ValidateEx *)

SeqsUpTo(S, n) == UNION {[1..k -> S] : k \in 0..n}

\* a certificate stream that x509.ParseCertificate rejects
BadCert == [LeafCert EXCEPT !.serial = 0, !.subjectCN = "", !.valid = FALSE]

\* the streams a VRI entry of the document may hold
DocCerts == {MakeStream(c) : c \in {LeafCert, CaCertificate, BadCert}}

DocOCSPs == {MakeStream(b) : b \in OCSPBodies}

DocCLRs ==
    {MakeStream(b) : b \in {CRLBody(FALSE, <<>>), CRLBody(TRUE, <<>>),
                            CRLBody(TRUE, <<1>>), CRLBody(TRUE, <<2>>)}}

\* the VRI entries a document may hold
DocEvidence ==
    {e \in [Certs : SeqsUpTo(DocCerts, MaxEvidence), OCSPs : SeqsUpTo(DocOCSPs, MaxEvidence),
            CLRs : SeqsUpTo(DocCLRs, MaxEvidence)] :
        Len(e.Certs) + Len(e.OCSPs) + Len(e.CLRs) <= MaxEvidence}

\* the Contents of the document: a signature over docA by LeafCert, as Sign writes it
DocContents ==
    LET sd == SignedData("docA", LeafCert, PrivKey, <<CaCertificate>>)
    IN  Bytes(sd, DerLen(sd) + ContentsSlack)

\* the DSS a reader parsed from the document: with a VRI entry e for the
\* signature, or with no VRI entry at all
DocDSS(e, keyed) ==
    [Certs |-> e.Certs, OCSPs |-> e.OCSPs, CLRs |-> e.CLRs,
     VRI |-> IF keyed THEN (VRIKey(DocContents) :> e) ELSE <<>>]

InitDocument ==
    /\ handler = NewEmptyPAdES
    /\ sig = [s \in Sigs |-> [NewPdfSignature EXCEPT !.Filter = <<"Adobe.PPKLite">>,
                                                     !.SubFilter = <<"ETSI.CAdES.detached">>,
                                                     !.Contents = DocContents]]
    /\ \E e \in DocEvidence, keyed \in BOOLEAN :
           /\ keyed \/ e = [Certs |-> <<>>, OCSPs |-> <<>>, CLRs |-> <<>>]
           /\ heap = <<DocDSS(e, keyed)>>
    /\ reserved = [s \in Sigs |-> 0]
    /\ last = Call("none", Nil, NoError, <<>>, Nil)
    /\ digest = Nil
    /\ newHtmlParagraph

\* the digests and alterations a validation is tried with
ValidateInputs ==
    {[content |-> c, damage |-> "none"] : c \in Docs}
    \cup {[content |-> "docA", damage |-> d] : d \in Damages}

\* one validation of the document (ValidateEx changes nothing it reads, so a
\* second call returns what the first did)
NextDocument ==
    /\ last.op = "none"
    /\ \E s \in FirstSig, i \in ValidateInputs :
           \/ ValidateCall(s, i.content, i.damage)
           \/ \E r \in Readers : ValidateExCall(s, i.content, i.damage, r)

SpecValidate == InitDocument /\ [][NextDocument]_vars

----------------------------------------------------------------------------
(* Claims *)

\* the DSS that the handler stored in signature s points to
SigDSS(s) == heap[sig[s].Handler.dss]

\* C1: once InitSignature has set sig.Contents, every successful real Sign
\* leaves len(Contents) at the length InitSignature fixed.
C1_ContentsLengthFixed ==
    \A s \in Sigs :
        (last.op = "Sign" /\ last.arg.s = s /\ last.err = NoError /\ reserved[s] # 0)
            => sig[s].Contents.len = reserved[s]

\* the fields each level requires, in the order the claim gives
RequiredFields(level) ==
    LET all == <<"PrivateKey", "Certificate", "CaCert", "CertificateTimestampServerURL",
                 "CLRDistributionPoints", "OCSPServers", "TimestampServerURL">>
        n == CASE level = "B" -> 3 [] level = "T" -> 4 [] level = "LT" -> 6 [] level = "LTA" -> 7
    IN  SubSeq(all, 1, n)

\* whether parameter f of p is absent: a nil pointer, an empty string, an empty list
Absent(p, f) ==
    CASE f = "PrivateKey" -> p.PrivateKey = Nil
      [] f = "Certificate" -> p.Certificate = Nil
      [] f = "CaCert" -> p.CaCert = Nil
      [] f = "CertificateTimestampServerURL" -> p.CertificateTimestampServerURL = ""
      [] f = "CLRDistributionPoints" -> p.CLRDistributionPoints = <<>>
      [] f = "OCSPServers" -> p.OCSPServers = <<>>
      [] f = "TimestampServerURL" -> p.TimestampServerURL = ""

\* C2: New of each level returns an error exactly when a field the level requires
\* is absent; the error names the first absent field in the order PrivateKey,
\* Certificate, CaCert, CertificateTimestampServerURL, CLRDistributionPoints,
\* OCSPServers, TimestampServerURL; with the error no handler is returned, and
\* without a handler no signature is ever initialised or signed.
C2_BuilderErrors ==
    /\ last.op = "New" =>
           LET req == RequiredFields(last.arg.level)
               missing == {i \in 1..Len(req) : Absent(last.arg.p, req[i])}
           IN  /\ (last.err # NoError) <=> (missing # {})
               /\ missing # {} =>
                      /\ \E i \in missing :
                             /\ \A j \in missing : i <= j
                             /\ last.err = FieldRequired(req[i])
                      /\ last.out.handler = Nil
                      /\ last.out.second = Nil
                      /\ handler = Nil
               /\ missing = {} => (handler # Nil /\ handler = last.out.handler)
    /\ handler = Nil => \A s \in Sigs : sig[s] = NewPdfSignature

\* C2 witness: a T-level builder lacking both the CA certificate and the timestamp
\* URL fails naming CaCert, the first of the two.
C2_Witness ==
    /\ last.op = "New"
    /\ last.arg.level = "T"
    /\ last.arg.p.PrivateKey # Nil
    /\ last.arg.p.Certificate # Nil
    /\ last.arg.p.CaCert = Nil
    /\ last.arg.p.CertificateTimestampServerURL = ""
    /\ last.err = FieldRequired("CaCert")
    /\ handler = Nil

\* whether call l is a Sign that failed while collecting OCSP responses or CRLs
FailedCollecting(l) ==
    /\ l.op = "Sign"
    /\ l.err # NoError
    /\ Len(l.requests) > 0
    /\ l.requests[Len(l.requests)].kind \in {"ocsp", "crl"}

\* C3: a real Sign that fails on an OCSP or CRL request leaves the DSS (Certs,
\* OCSPs, CLRs and the VRI map) exactly as it was before that Sign started.
C3_NoPartialDSS == [][FailedCollecting(last') => heap' = heap]_vars

\* whether handler a is what PAdESLevelB.New builds: no timestamp URL, no servers
IsBLevel(a) ==
    /\ a # Nil
    /\ a.privateKey # Nil /\ a.certificate # Nil /\ a.caCert # Nil
    /\ a.timestampServerURL = ""
    /\ a.crlDistributionPoints = <<>>
    /\ a.ocspServers = <<>>

VerifiedOnly == [EmptyResult EXCEPT !.IsSigned = TRUE, !.IsVerified = TRUE]

\* C4: with a B-level handler, InitSignature and every real Sign succeed, Validate
\* of the Contents a Sign wrote, against the digest of the content it signed,
\* returns IsSigned and IsVerified without error, and no call issues a network
\* request.
C4_BLevelRoundTrip ==
    IsBLevel(handler) =>
        /\ last.requests = <<>>
        /\ last.op \in {"InitSignature", "Sign"} => last.err = NoError
        /\ last.op = "Sign" =>
               Validate(sig[last.arg.s].Contents, last.arg.content)
                   = Returned(NoError, VerifiedOnly)
        /\ (/\ last.op = "Validate"
            /\ last.arg.damage = "none"
            /\ sig[last.arg.s].Contents.der.messageDigest = <<"sha1", last.arg.content>>)
               => (last.err = NoError /\ last.out.IsSigned /\ last.out.IsVerified)

\* C4 witness: a B-level handler has signed docB over a signature initialised
\* before, and Validate against docB has returned a verified result.
C4_Witness ==
    /\ IsBLevel(handler)
    /\ last.op = "Validate"
    /\ last.arg.content = "docB"
    /\ sig[last.arg.s].Contents.der.messageDigest = <<"sha1", "docB">>
    /\ Len(SigDSS(last.arg.s).Certs) > 0
    /\ last.err = NoError
    /\ last.out = VerifiedOnly
    /\ last.requests = <<>>

\* whether call l is a validation
IsValidation(l) == l.op \in {"Validate", "ValidateEx"}

\* whether the bytes validated by call l fail to decode or to verify against the
\* digest the call was given
Unverifiable(l) ==
    \/ l.arg.damage \in {"structure", "signature"}
    \/ sig[l.arg.s].Contents.der.messageDigest # <<"sha1", l.arg.content>>

\* C5: Validate and ValidateEx return an error and the empty result when the
\* signature bytes do not decode or do not verify against the digest; every
\* result returned without an error has IsSigned and IsVerified.
C5_NoSoftUnverified ==
    IsValidation(last) =>
        /\ Unverifiable(last) => (last.err # NoError /\ last.out = EmptyResult)
        /\ last.err # NoError => last.out = EmptyResult
        /\ last.err = NoError => (last.out.IsSigned /\ last.out.IsVerified)

\* C5 witness: ValidateEx, given a reader whose DSS has the signature's VRI entry
\* with evidence, and Contents whose signature bytes were altered, returns an
\* error and the empty result.
C5_Witness ==
    /\ last.op = "ValidateEx"
    /\ last.arg.damage = "signature"
    /\ last.arg.r.DSS # Nil
    /\ VRIKey([sig[last.arg.s].Contents EXCEPT !.damage = "signature"]) \notin DOMAIN last.arg.r.DSS.VRI
    /\ VRIKey(sig[last.arg.s].Contents) \in DOMAIN last.arg.r.DSS.VRI
    /\ Len(last.arg.r.DSS.OCSPs) > 0
    /\ last.err = <<"pkcs7", "verification failed">>
    /\ last.out = EmptyResult

\* C6: a real Sign whose DER-encoded signature is longer than the Contents size
\* InitSignature reserved is rejected: a Sign that returned no error has stored
\* a signature that fits the reserved size.
C6_OversizedRejected ==
    \A s \in Sigs :
        (last.op = "Sign" /\ last.arg.s = s /\ last.err = NoError /\ reserved[s] # 0)
            => DerLen(sig[s].Contents.der) <= reserved[s]

\* C7: every VRI entry holds the certificates collected by the one Sign that
\* created it: one stream, the signing certificate of that Sign.
C7_VRIEntryIsOneBatch ==
    \A d \in DOMAIN heap : \A k \in DOMAIN heap[d].VRI :
        heap[d].VRI[k].Certs = <<MakeStream(k.sha1.der.signer)>>

\* C8: after a successful real Sign the DSS has a VRI entry under the fingerprint
\* of the final Contents (padding included), the key ValidateEx computes from
\* these Contents, and ValidateEx of these Contents with that DSS against the
\* signed content returns IsVRIFound.
C8_VRIKeyMatches ==
    \A s \in Sigs :
        (last.op = "Sign" /\ last.arg.s = s /\ last.err = NoError) =>
            LET out == ValidateEx(sig[s].Contents, last.arg.content, [DSS |-> SigDSS(s)])
            IN  /\ VRIKey(sig[s].Contents) \in DOMAIN SigDSS(s).VRI
                /\ VRIKey(sig[s].Contents).sha1.len = sig[s].Contents.len
                /\ VRIKey(sig[s].Contents).hex = "upper"
                /\ out.err = NoError
                /\ out.result.IsVRIFound

\* C8 witness: ValidateEx, called with the DSS of the handler after a Sign wrote
\* a VRI entry with OCSP and CRL evidence, has returned IsVRIFound.
C8_Witness ==
    /\ last.op = "ValidateEx"
    /\ last.arg.r = [DSS |-> SigDSS(last.arg.s)]
    /\ Len(SigDSS(last.arg.s).OCSPs) > 0
    /\ Len(SigDSS(last.arg.s).CLRs) > 0
    /\ last.err = NoError
    /\ last.out.IsVRIFound

\* the VRI entry that ValidateEx call l found
FoundVRI(l) == LookupVRI(l.arg.r, VRIKey([sig[l.arg.s].Contents EXCEPT !.damage = l.arg.damage]))

\* whether call l is a ValidateEx that returned a result with a VRI entry found
FoundEvidence(l) == l.op = "ValidateEx" /\ l.err = NoError /\ l.out.IsVRIFound

\* the OCSP responses of VRI entry vri that do not parse or match for the
\* signer of signature s and the issuer found among the entry's certificates
FailingOCSPs(vri, s) ==
    LET signer == sig[s].Contents.der.signer
        issuer == FindIssuer(vri.Certs, 1, signer, Nil)
    IN  {i \in 1..Len(vri.OCSPs) : ParseResponseForCert(vri.OCSPs[i].Stream, signer, issuer) # NoError}

\* C9: in a result with a VRI entry found, IsVerifiedByOCSPs holds exactly when the
\* entry has an OCSP response and each one parses and matches for (signer,
\* issuer); Errors holds one OCSP error per failing response, wherever it stands.
C9_OCSPAllMustVerify ==
    FoundEvidence(last) =>
        LET vri == FoundVRI(last)
            failing == FailingOCSPs(vri, last.arg.s)
            errs == {i \in 1..Len(last.out.Errors) : last.out.Errors[i].kind = "ocsp"}
        IN  /\ last.out.IsVerifiedByOCSPs <=> (Len(vri.OCSPs) > 0 /\ failing = {})
            /\ Cardinality(errs) = Cardinality(failing)
            /\ last.out.IsOCSPsFound <=> Len(vri.OCSPs) > 0

\* C9 witness: three OCSP responses of which only the first fails; the result has
\* IsVerifiedByOCSPs false and exactly one OCSP error.
C9_Witness ==
    /\ FoundEvidence(last)
    /\ Len(FoundVRI(last).OCSPs) = 3
    /\ FailingOCSPs(FoundVRI(last), last.arg.s) = {1}
    /\ ~last.out.IsVerifiedByOCSPs
    /\ Len(last.out.Errors) = 1
    /\ last.out.Errors[1].kind = "ocsp"

\* whether a CRL of vri that parses lists the serial number of the signer of
\* signature s or of a certificate of vri
ListedRevoked(vri, s) ==
    LET serials == {sig[s].Contents.der.signer.serial}
                   \cup {vri.Certs[k].Stream.serial : k \in 1..Len(vri.Certs)}
    IN  \E i \in 1..Len(vri.CLRs) :
            /\ vri.CLRs[i].Stream.wellformed
            /\ \E j \in 1..Len(vri.CLRs[i].Stream.revoked) : vri.CLRs[i].Stream.revoked[j] \in serials

\* C10: when a CRL of the VRI entry lists the serial number of the signer or of a
\* VRI certificate, IsVerifiedByCLRs is false and Errors holds a revocation
\* message naming the signer's serial number; IsVerifiedByCLRs holds exactly when
\* the entry has a CRL, every CRL parses and none lists such a serial number.
C10_CRLRevocation ==
    FoundEvidence(last) =>
        LET vri == FoundVRI(last)
            signer == sig[last.arg.s].Contents.der.signer
            listed == ListedRevoked(vri, last.arg.s)
        IN  /\ listed =>
                   /\ ~last.out.IsVerifiedByCLRs
                   /\ \E i \in 1..Len(last.out.Errors) : last.out.Errors[i] = Revoked(signer.serial)
            /\ last.out.IsVerifiedByCLRs <=>
                   /\ Len(vri.CLRs) > 0
                   /\ \A i \in 1..Len(vri.CLRs) : vri.CLRs[i].Stream.wellformed
                   /\ ~listed

\* C10 witness: the entry holds the CA certificate and two CRLs, the first listing
\* the CA's serial number and the second listing nothing; the result has
\* IsVerifiedByCLRs false and a revocation message with the signer's serial number.
C10_Witness ==
    /\ FoundEvidence(last)
    /\ FoundVRI(last).Certs = <<MakeStream(CaCertificate)>>
    /\ FoundVRI(last).CLRs = <<MakeStream(CRLBody(TRUE, <<2>>)), MakeStream(CRLBody(TRUE, <<>>))>>
    /\ ~last.out.IsVerifiedByCLRs
    /\ last.out.Errors = <<Revoked(1)>>

\* C11: when no reader is given, the reader has no DSS, or the DSS has no VRI entry
\* for the fingerprint, validating Contents that decode and verify returns, without
\* error, IsSigned and IsVerified true, every other flag false and no Errors.
C11_MissingVRINotFatal ==
    (IsValidation(last) /\ ~Unverifiable(last) /\ FoundVRI(last) = Nil) =>
        /\ last.err = NoError
        /\ last.out = VerifiedOnly

\* C11 witness: the reader's DSS holds a VRI entry with evidence for the Contents
\* as signed, the Contents validated differ from them in the padding, and
\* ValidateEx has returned the integrity-only result.
C11_Witness ==
    /\ last.op = "ValidateEx"
    /\ last.arg.damage = "padding"
    /\ last.arg.r.DSS # Nil
    /\ VRIKey(sig[last.arg.s].Contents) \in DOMAIN last.arg.r.DSS.VRI
    /\ Len(last.arg.r.DSS.CLRs) > 0
    /\ FoundVRI(last) = Nil
    /\ last.err = NoError
    /\ last.out = VerifiedOnly

\* C12: only a decode failure and a signature-integrity failure make a validation
\* return an error: Contents that decode and verify always yield a result, whatever
\* the VRI evidence holds.
C12_EvidenceDefectsNotFatal ==
    (IsValidation(last) /\ ~Unverifiable(last)) => last.err = NoError

\* C13: InitSignature on a handler without certificate or private key returns an
\* error; it does not panic and does not succeed.
C13_MissingFieldIsError ==
    (/\ last.op = "InitSignature"
     /\ (handler.certificate = Nil \/ handler.privateKey = Nil))
        => (last.err # NoError /\ last.err # Panic)

\* the bodies that CRL distribution point server may send with a 2xx status
CRLBodies2xx(server) ==
    {r.body : r \in {x \in CRLResponses(server) : ~x.transport /\ x.status \in 200..299}}

\* C14: a CRL distribution point that fails in transport or answers with a
\* non-2xx status aborts the real Sign: every CRL blob in a DSS is the body of a
\* 2xx answer of the distribution point at its place in the list.
C14_CRLOnlyFrom2xx ==
    \A s \in Sigs :
        sig[s].Handler # Nil =>
            \A i \in 1..Len(SigDSS(s).CLRs) :
                SigDSS(s).CLRs[i].Stream \in CRLBodies2xx(sig[s].Handler.crlDistributionPoints[i])

\* C15: an OCSP response is accepted into the DSS only if it decodes and is a
\* response for the leaf certificate signed by the CA certificate.
C15_OCSPOnlyForLeaf ==
    \A s \in Sigs :
        sig[s].Handler # Nil =>
            \A i \in 1..Len(SigDSS(s).OCSPs) :
                ParseResponseForCert(SigDSS(s).OCSPs[i].Stream, sig[s].Handler.certificate,
                                     sig[s].Handler.caCert) = NoError

\* whether call l is a Sign: the sizing Sign of InitSignature or a real one
IsSign(l) == l.op \in {"InitSignature", "Sign"}

\* the signature call l was made on
SignedSig(l) == IF l.op = "Sign" THEN l.arg.s ELSE l.arg

\* the positions of the steps named name among steps
StepsAt(steps, name) == {i \in 1..Len(steps) : steps[i].step = name}

\* whether call l is a Sign that returned the error of its timestamp request
TimestampFailed(l) ==
    /\ IsSign(l)
    /\ l.err # NoError
    /\ Len(l.requests) > 0
    /\ l.requests[Len(l.requests)].kind = "timestamp"

\* C16: every Sign issues a timestamp request exactly when the handler has a
\* timestamp-server URL, after AddSignerChain has computed the signature value and
\* before Contents is written; when the request fails or the status is not OK,
\* Sign returns an error and leaves Contents and the DSS as they were.
C16_TimestampAfterSignature ==
    [][IsSign(last') =>
          LET s == SignedSig(last')
              a == sig'[s].Handler
              steps == last'.out
              ts == StepsAt(steps, "timestamp")
          IN  /\ (ts # {}) <=> (steps # <<>> /\ Len(a.timestampServerURL) > 0)
              /\ Cardinality(ts) <= 1
              /\ \A i \in ts :
                     /\ steps[i].url = a.timestampServerURL
                     /\ \E j \in StepsAt(steps, "AddSignerChain") : j < i
                     /\ \A k \in StepsAt(steps, "Contents") : i < k
              /\ (ts # {}) <=> (\E i \in 1..Len(last'.requests) : last'.requests[i].kind = "timestamp")
              /\ TimestampFailed(last') =>
                     /\ sig'[s].Contents = sig[s].Contents
                     /\ IF last'.op = "Sign" THEN heap' = heap ELSE heap'[a.dss] = NewDSS
      ]_vars

\* C16 witness: after a Sign that stored Contents, a real Sign has asked the
\* timestamp server, got a status that is not OK, and returned the error with the
\* Contents still in place.
C16_Witness ==
    /\ last.op = "Sign"
    /\ last.err = <<"timestamp", "http status code not ok">>
    /\ last.out = <<Step("NewSignedData", ""), Step("AddSignerChain", ""), Step("Detach", ""),
                    Step("timestamp", "http://tsa")>>
    /\ sig[last.arg.s].Contents # Nil
    /\ Len(SigDSS(last.arg.s).Certs) > 0

\* the requests a real Sign by handler a issues when none fails
AllRequests(a) ==
    (IF Len(a.timestampServerURL) > 0 THEN <<Request("timestamp", a.timestampServerURL)>> ELSE <<>>)
    \o [i \in 1..Len(a.ocspServers) |-> Request("ocsp", a.ocspServers[i])]
    \o [i \in 1..Len(a.crlDistributionPoints) |-> Request("crl", a.crlDistributionPoints[i])]

\* the network requests among steps, as the log records them
RequestsOf(steps) ==
    LET reqs == SelectSeq(steps, LAMBDA x : x.url # "")
    IN  [i \in 1..Len(reqs) |-> Request(reqs[i].step, reqs[i].url)]

C18_ValidateReadsOnly ==
    [][IsValidation(last') => (heap' = heap /\ sig' = sig /\ handler' = handler)]_vars

\* C18 witness: ValidateEx, given the DSS a Sign filled and the digest of another
\* document, has returned an error, and the DSS still holds its VRI entry and
\* its evidence.
C18_Witness ==
    /\ last.op = "ValidateEx"
    /\ last.err # NoError
    /\ last.arg.r = [DSS |-> SigDSS(last.arg.s)]
    /\ VRIKey(sig[last.arg.s].Contents) \in DOMAIN SigDSS(last.arg.s).VRI
    /\ Len(SigDSS(last.arg.s).OCSPs) > 0

\* C19: InitSignature leaves the DSS it creates empty and issues no OCSP or CRL
\* request; afterwards a DSS changes only in a real Sign that returns no error,
\* and that Sign adds to the VRI map the one entry of the Contents it stored.
C19_DSSFilledBySuccessfulSign ==
    [][/\ (last'.op = "InitSignature" /\ last'.out # <<>>) =>
              /\ heap'[sig'[last'.arg].Handler.dss] = NewDSS
              /\ \A i \in 1..Len(last'.requests) : last'.requests[i].kind = "timestamp"
       /\ last'.op # "InitSignature" =>
              \A d \in DOMAIN heap :
                  heap'[d] # heap[d] =>
                      /\ last'.op = "Sign"
                      /\ last'.err = NoError
                      /\ DOMAIN heap'[d].VRI
                             = DOMAIN heap[d].VRI \cup {VRIKey(sig'[last'.arg.s].Contents)}
      ]_vars

\* whether handler a is what PAdESLevelB.New or PAdESLevelT.New builds: a signer
\* without OCSP servers and CRL distribution points
IsBOrTLevel(a) ==
    /\ a # Nil
    /\ a.certificate # Nil /\ a.privateKey # Nil
    /\ a.ocspServers = <<>>
    /\ a.crlDistributionPoints = <<>>

\* C20: a real Sign by a B-level or T-level handler adds no certificate, OCSP
\* response, CRL or VRI entry to a DSS: the DSS of such a handler stays empty.
C20_NoDSSBelowLT ==
    \A s \in Sigs : IsBOrTLevel(sig[s].Handler) => SigDSS(s) = NewDSS

\* C21: after a successful InitSignature len(Contents) is the DER length of the
\* sizing signature plus 2048, and after every successful Sign Contents is the DER
\* signature followed by zero bytes only, 2048 of them.
C21_ContentsIsDERPlusSlack ==
    (IsSign(last) /\ last.err = NoError) =>
        LET c == sig[SignedSig(last)].Contents
        IN  /\ c.len = DerLen(c.der) + 2048
            /\ c.damage = "none"
            /\ last.op = "InitSignature" =>
                   /\ c.der.messageDigest = <<"sha1", ProbePayload>>
                   /\ reserved[last.arg] = c.len

\* C21 witness: InitSignature of a timestamping handler has succeeded with a
\* 4096-byte token in the sizing signature: Contents is 1200 + 900 + 4096 + 2048
\* bytes long.
C21_Witness ==
    /\ last.op = "InitSignature"
    /\ last.err = NoError
    /\ sig[last.arg].Contents.der.token = 4096
    /\ sig[last.arg].Contents.len = 8244

\* C22: IsApplicable returns true exactly when the signature is not nil, Filter and
\* SubFilter are present, Filter is "Adobe.PPKLite" and SubFilter is
\* "ETSI.CAdES.detached"; it returns true for a signature InitSignature has run
\* on, and it changes nothing.
C22_IsApplicableExact ==
    [][/\ last'.op = "IsApplicable" =>
              /\ last'.out <=> (/\ last'.arg # Nil
                                /\ last'.arg.Filter = <<"Adobe.PPKLite">>
                                /\ last'.arg.SubFilter = <<"ETSI.CAdES.detached">>)
              /\ (last'.arg # Nil /\ last'.arg.Handler # Nil) => last'.out
              /\ UNCHANGED <<handler, sig, heap, reserved, digest, htmlVars>>
       /\ (last'.op = "InitSignature" /\ last'.out # <<>>) => IsApplicable(sig'[last'.arg])
      ]_vars

\* C22 witness: IsApplicable has returned false for a signature whose Filter is
\* "Adobe.PPKLite" and whose SubFilter is "adbe.pkcs7.detached".
C22_Witness ==
    /\ last.op = "IsApplicable"
    /\ last.arg # Nil
    /\ last.arg.Filter = <<"Adobe.PPKLite">>
    /\ last.arg.SubFilter = <<"adbe.pkcs7.detached">>
    /\ last.out = FALSE

\* C24: a successful PAdESLevelLTA.New returns the main handler, with every field
\* of the parameters and CertificateTimestampServerURL as its timestamp URL, and a
\* second handler, another object, that holds TimestampServerURL; the B, T and LT
\* builders return one handler; with an error no handler is returned; no Sign of
\* a main handler asks the document-timestamp server.
C24_LTAHandlers ==
    /\ last.op = "New" =>
           LET p == last.arg.p
               r == last.out
           IN  /\ (last.arg.level = "LTA" /\ r.err = NoError) =>
                      /\ r.handler = EtsiPAdES(p.PrivateKey, p.Certificate, p.CaCert,
                                               p.CLRDistributionPoints, p.OCSPServers,
                                               p.CertificateTimestampServerURL)
                      /\ r.handler.privateKey # Nil /\ r.handler.certificate # Nil
                      /\ r.second # Nil
                      /\ r.second # r.handler
                      /\ r.second.timestampServerURL = p.TimestampServerURL
               /\ last.arg.level \in {"B", "T", "LT"} => r.second = Nil
               /\ r.err = NoError => (r.handler # Nil /\ handler = r.handler)
               /\ r.err # NoError => (r.handler = Nil /\ r.second = Nil /\ handler = Nil)
    /\ \A i \in 1..Len(last.requests) :
           last.requests[i].kind = "timestamp" => last.requests[i].url = "http://tsa"

\* C24 witness: PAdESLevelLTA.New with every field set has returned two handlers.
C24_Witness ==
    /\ last.op = "New"
    /\ last.arg.level = "LTA"
    /\ last.err = NoError
    /\ last.out.handler.timestampServerURL = "http://tsa"
    /\ last.out.second.timestampServerURL = "http://doc-tsa"
    /\ Len(last.out.handler.ocspServers) = 2

\* what the attempt of call l wrote to its digest
Written(l) == IF l.op = "InitSignature" THEN ProbePayload ELSE l.arg.content

\* whether call l is a signing or validation attempt that got as far as its digest
UsedDigest(l) ==
    \/ l.op \in {"Sign", "Validate", "ValidateEx"}
    \/ (l.op = "InitSignature" /\ l.out # <<>>)

\* C23: the digest NewDigest returns is empty, every attempt has its own, and Sign
\* and ValidateEx only read it: after the call the digest holds, unread, exactly
\* the bytes this attempt wrote, and nothing of an earlier attempt.
C23_DigestFreshAndIntact ==
    /\ \A s \in Sigs : ReadDigest(NewDigest(sig[s])).bytes = <<>>
    /\ UsedDigest(last) =>
           /\ digest.buf = <<Written(last)>>
           /\ ReadDigest(digest).bytes = <<Written(last)>>
           /\ ReadDigest(digest).buffer = digest

\* C23 witness: after InitSignature, whose digest held the sizing payload, a real
\* Sign over docB has succeeded and its digest holds docB only.
C23_Witness ==
    /\ last.op = "Sign"
    /\ last.err = NoError
    /\ last.arg.content = "docB"
    /\ reserved[last.arg.s] # 0
    /\ digest = [buf |-> <<"docB">>, off |-> 0]
    /\ sig[last.arg.s].Contents.der.messageDigest = <<"sha1", "docB">>

\* whether InitSignature can return for handler a: Sign does not panic on it
Signs(a) == a.certificate # Nil /\ a.privateKey # Nil

\* C26: once InitSignature has returned, with or without an error, neither the
\* original handler nor the handler stored in the signature is initializing, and
\* a Sign that succeeds afterwards has gone on to the DSS and written the VRI
\* entry.
C26_InitializingOnlyWhileSizing ==
    /\ handler # Nil => ~handler.isInitializing
    /\ \A s \in Sigs :
           (sig[s].Handler # Nil /\ Signs(sig[s].Handler)) => ~sig[s].Handler.isInitializing
    /\ (last.op = "Sign" /\ last.err = NoError) =>
           /\ StepsAt(last.out, "VRI") # {}
           /\ VRIKey(sig[last.arg.s].Contents) \in DOMAIN SigDSS(last.arg.s).VRI

\* C26 witness: InitSignature has returned the error of the timestamp request of
\* its sizing Sign, and the handler it stored in the signature is not initializing.
C26_Witness ==
    /\ last.op = "InitSignature"
    /\ last.err = <<"http", "post failed">>
    /\ sig[last.arg].Handler # Nil
    /\ ~sig[last.arg].Handler.isInitializing
    /\ ~handler.isInitializing

\* the requests a real Sign by handler a issues when none fails; without a CA
\* certificate no OCSP server is asked
RequestsFor(a) ==
    (IF Len(a.timestampServerURL) > 0 THEN <<Request("timestamp", a.timestampServerURL)>> ELSE <<>>)
    \o (IF a.caCert = Nil THEN <<>>
        ELSE [i \in 1..Len(a.ocspServers) |-> Request("ocsp", a.ocspServers[i])])
    \o [i \in 1..Len(a.crlDistributionPoints) |-> Request("crl", a.crlDistributionPoints[i])]

\* C25: the CA certificate, server lists and timestamp URL of the handler stored
\* in a signature change only when InitSignature runs on that signature, whatever
\* setter is called on the original handler; a real Sign through sig.Handler asks
\* the servers and chains the CA certificate of that stored handler.
C25_ConfigurationFrozen ==
    [][/\ \A s \in Sigs :
              (sig[s].Handler # Nil /\ ~(last'.op = "InitSignature" /\ last'.arg = s))
                  => Config(sig'[s].Handler) = Config(sig[s].Handler)
       /\ last'.op = "Sign" =>
              LET a == sig[last'.arg.s].Handler
                  n == Len(last'.requests)
              IN  /\ n <= Len(RequestsFor(a))
                  /\ last'.requests = SubSeq(RequestsFor(a), 1, n)
                  /\ last'.err = NoError =>
                         /\ n = Len(RequestsFor(a))
                         /\ sig'[last'.arg.s].Contents.der.certificates
                                = <<a.certificate>> \o (IF a.caCert # Nil THEN <<a.caCert>> ELSE <<>>)
      ]_vars

\* C25 witness: after InitSignature on a B-level handler, AddOCSPServers has given
\* the original handler an OCSP server, and a real Sign through sig.Handler has
\* succeeded without any request.
C25_Witness ==
    /\ last.op = "Sign"
    /\ last.err = NoError
    /\ last.requests = <<>>
    /\ sig[last.arg.s].Handler.dss = handler.dss
    /\ sig[last.arg.s].Handler.ocspServers = <<>>
    /\ handler.ocspServers = <<OCSPUrl(1)>>

\* the signatures InitSignature has run on
Initialized(sg) == {s \in Sigs : sg[s].Handler # Nil}

\* C27: InitSignature gives the original handler a new empty DSS, shared with the
\* copy it stores in the signature and with no signature initialised before, whose
\* DSS it leaves as it was; a successful real Sign through a copy that shares the
\* original handler's DSS puts its VRI entry in what GetDSS returns.
C27_DSSSharedWithCopyOnly ==
    [][/\ (last'.op = "InitSignature" /\ last'.out # <<>>) =>
              /\ handler'.dss = sig'[last'.arg].Handler.dss
              /\ heap'[handler'.dss] = NewDSS
              /\ \A o \in Initialized(sig) \ {last'.arg} :
                     /\ sig'[o].Handler.dss # handler'.dss
                     /\ heap'[sig'[o].Handler.dss] = heap[sig[o].Handler.dss]
       /\ \A s1 \in Initialized(sig'), s2 \in Initialized(sig') :
              s1 # s2 => sig'[s1].Handler.dss # sig'[s2].Handler.dss
       /\ (/\ last'.op = "Sign"
           /\ last'.err = NoError
           /\ sig'[last'.arg.s].Handler.dss = handler'.dss)
              => VRIKey(sig'[last'.arg.s].Contents) \in DOMAIN heap'[handler'.dss].VRI
       /\ last'.op = "GetDSS" => last'.out = heap[handler.dss]
      ]_vars

\* C27 witness: both signatures are initialised and signed; GetDSS on the original
\* handler returns the DSS of the second, with its VRI entry and without the
\* first's, and the first signature's DSS still has the first's VRI entry.
C27_Witness ==
    /\ last.op = "GetDSS"
    /\ Initialized(sig) = Sigs
    /\ handler.dss = sig["s2"].Handler.dss
    /\ DOMAIN last.out.VRI = {VRIKey(sig["s2"].Contents)}
    /\ DOMAIN SigDSS("s1").VRI = {VRIKey(sig["s1"].Contents)}
    /\ sig["s1"].Contents # sig["s2"].Contents

\* the entries <<i, j>> of the CRLs of vri that parse and that list serial number n
RevokedEntries(vri, n) ==
    {e \in (1..Len(vri.CLRs)) \X (1..MaxEvidence) :
        /\ vri.CLRs[e[1]].Stream.wellformed
        /\ e[2] <= Len(vri.CLRs[e[1]].Stream.revoked)
        /\ vri.CLRs[e[1]].Stream.revoked[e[2]] = n}

\* C28: the revocation errors of a validation name the certificates that matched:
\* for each serial number of the signer or of a VRI certificate, Errors holds as
\* many revocation messages with that serial number as CRL entries list it, also
\* when the signer's own certificate is among the VRI certificates.
C28_RevocationNamesMatch ==
    FoundEvidence(last) =>
        LET vri == FoundVRI(last)
            serials == {sig[last.arg.s].Contents.der.signer.serial}
                       \cup {vri.Certs[k].Stream.serial : k \in 1..Len(vri.Certs)}
            errors == last.out.Errors
        IN  /\ \A i \in 1..Len(errors) :
                   errors[i].kind = "revoked" => errors[i].serial \in serials
            /\ \A n \in serials :
                   Cardinality({i \in 1..Len(errors) : errors[i] = Revoked(n)})
                       = Cardinality(RevokedEntries(vri, n))

\* the largest number of cells in a row of table t, 0 for a table without rows
MaxCells(t) ==
    IF t.rows = <<>> THEN 0
    ELSE CHOOSE n \in {Len(t.rows[r]) : r \in 1..Len(t.rows)} :
             \A r \in 1..Len(t.rows) : Len(t.rows[r]) <= n

\* C29: a call of processNode leaves the style stack and the table stack as they
\* were when it was called, whether it returns before its loop (a text node, style,
\* script) or after it, with every deferred pop run; when Append returns, both
\* stacks are empty.
C29_StacksRestored ==
    [][/\ Len(frames') < Len(frames) =>
              /\ styleStack' = frames[Len(frames)].entry.styleStack
              /\ tableStack' = frames[Len(frames)].entry.tableStack
       /\ (visited' # visited /\ Len(frames') = Len(frames)) =>
              /\ styleStack' = styleStack
              /\ tableStack' = tableStack
       /\ Len(returned') > Len(returned) =>
              /\ styleStack' = <<>>
              /\ tableStack' = <<>>
      ]_vars

\* C29 witness: inside a table and its row, a th holding a text node has returned:
\* the text went to the cell's block in the bold font, and the style stack holds
\* the table's style alone again, the table stack the table.
C29_Witness ==
    /\ Len(frames) = 3
    /\ frames[2].node.Data = "table"
    /\ frames[3].node.Data = "tr"
    /\ Len(tables) = 1
    /\ Len(tables[1].rows) = 1
    /\ Len(tables[1].rows[1]) = 1
    /\ LET cell == blocks[tables[1].rows[1][1]]
       IN  /\ Len(cell.elements) = 1
           /\ cell.elements[1].chunks = <<[Text |-> "text", Style |-> [Font |-> BoldFont]]>>
    /\ Len(styleStack) = 1
    /\ ~styleStack[1].Bold
    /\ tableStack = <<1>>

\* C30: every table's maxColIndex is the largest number of cells in a row of it;
\* a td or th met while a table with a row is open adds one block, as the last
\* cell of the last row of the innermost open table and of no other row, and its
\* children go to that block; a td or th met otherwise adds no cell and no block
\* and its children go to the block of the node around it.
C30_CellsAndColumns ==
    [][/\ \A t \in DOMAIN tables' : tables'[t].maxColIndex = MaxCells(tables'[t])
       /\ (/\ Len(frames') > Len(frames)
           /\ frames # <<>>
           /\ frames'[Len(frames')].node.Data \in {"td", "th"}) =>
              LET t == currentTable(tableStack)
                  called == frames'[Len(frames')]
                  caller == frames[Len(frames)]
              IN  IF t # 0 /\ Len(tables[t].rows) > 0
                  THEN /\ Len(blocks') = Len(blocks) + 1
                       /\ SubSeq(blocks', 1, Len(blocks)) = blocks
                       /\ blocks'[Len(blocks')].parent = caller.newB
                       /\ called.newB = Len(blocks')
                       /\ DOMAIN tables' = DOMAIN tables
                       /\ \A u \in DOMAIN tables :
                              tables'[u].rows =
                                  IF u = t
                                  THEN [tables[t].rows EXCEPT ![Len(tables[t].rows)] =
                                                                  Append(@, called.newB)]
                                  ELSE tables[u].rows
                  ELSE /\ tables' = tables
                       /\ blocks' = blocks
                       /\ called.newB = caller.newB
      ]_vars

\* C30 witness: a table directly inside a table, then a tr and a td: the row and
\* its cell belong to the inner table, which has maxColIndex 1; the outer table has
\* no row and maxColIndex 0.
C30_Witness ==
    /\ tableStack = <<1, 2>>
    /\ tables = <<[maxColIndex |-> 0, rows |-> <<>>],
                  [maxColIndex |-> 1, rows |-> <<(<<Len(blocks)>>)>>]>>
    /\ Len(frames) = 5
    /\ frames[5].node.Data = "td"
    /\ frames[5].newB = Len(blocks)

=============================================================================
